---- MODULE Spec2Model ----
(***************************************************************************)
(* Submission-to-asset pipeline of club-image-processor: the CSV-upload    *)
(* orchestrator, the webhook orchestrator, the batch-by-reference entry    *)
(* point, the image transform and the Airtable reconciler.                 *)
(*                                                                         *)
(* Text is modelled as a sequence of one-character strings, so that the    *)
(* slug, blank tests and alt-text functions are computed character by      *)
(* character as the JavaScript does.                                       *)
(***************************************************************************)
EXTENDS Integers, Sequences, FiniteSets, TLC

NULL == "null"

(***************************************************************************)
(* Character classes of the regular expressions used by the source.        *)
(***************************************************************************)
Lowers == <<"a","b","c","d","e","f","g","h","i","j","k","l","m",
            "n","o","p","q","r","s","t","u","v","w","x","y","z">>
Uppers == <<"A","B","C","D","E","F","G","H","I","J","K","L","M",
            "N","O","P","Q","R","S","T","U","V","W","X","Y","Z">>
Digits == {"0","1","2","3","4","5","6","7","8","9"}

Range(s) == {s[i] : i \in 1..Len(s)}

\* \s of a JavaScript regular expression, and the characters trim() strips
IsSpace(c) == c \in {" ", "\t", "\n", "\r"}

\* \w of a JavaScript regular expression: [A-Za-z0-9_]
IsWord(c) == c \in Range(Lowers) \cup Range(Uppers) \cup Digits \cup {"_"}

\* String.prototype.toLowerCase / toUpperCase on one character
ToLower(c) == IF \E i \in 1..26 : Uppers[i] = c
              THEN Lowers[CHOOSE i \in 1..26 : Uppers[i] = c] ELSE c
ToUpper(c) == IF \E i \in 1..26 : Lowers[i] = c
              THEN Uppers[CHOOSE i \in 1..26 : Lowers[i] = c] ELSE c

\* s.trim() !== '' : some character of s is not whitespace
NonBlank(s) == \E i \in 1..Len(s) : ~IsSpace(s[i])

\* JavaScript truthiness of a string followed by the trim test: s && s.trim()
Truthy(s) == s # NULL /\ Len(s) > 0

\* .replace(/[^\w\s-]/g, '')
StripSpecial(s) == SelectSeq(s, LAMBDA c : IsWord(c) \/ IsSpace(c) \/ c = "-")

\* .replace(/\s+/g, '-') : every maximal run of whitespace becomes one hyphen
RECURSIVE SpacesToHyphen(_)
SpacesToHyphen(s) ==
    IF s = <<>> THEN <<>>
    ELSE IF IsSpace(Head(s))
         THEN IF Len(s) > 1 /\ IsSpace(s[2])
              THEN SpacesToHyphen(Tail(s))
              ELSE <<"-">> \o SpacesToHyphen(Tail(s))
         ELSE <<Head(s)>> \o SpacesToHyphen(Tail(s))

LowerCase(s) == [i \in 1..Len(s) |-> ToLower(s[i])]

\* .substring(1, n): the first character is lost
SubstringFrom1(s, n) == SubSeq(s, 2, IF Len(s) <= n THEN Len(s) ELSE n)

\* .substring(0, n)
Substring0(s, n) == IF Len(s) <= n THEN s ELSE SubSeq(s, 1, n)

SlugMaxLen == 50

cleanClubName(name) ==
    Substring0(LowerCase(SpacesToHyphen(StripSpecial(name))), SlugMaxLen)

\* .replace(/-/g, ' ').replace(/\b\w/g, l => l.toUpperCase())
properClubName(clubName) ==
    LET spaced == [i \in 1..Len(clubName) |->
                     IF clubName[i] = "-" THEN " " ELSE clubName[i]]
    IN  [i \in 1..Len(spaced) |->
            IF IsWord(spaced[i]) /\ (i = 1 \/ ~IsWord(spaced[i-1]))
            THEN ToUpper(spaced[i]) ELSE spaced[i]]

HeroSuffix == <<" ","h","e","r","o"," ","i","m","a","g","e">>
LogoSuffix == <<" ","l","o","g","o">>
GallerySuffix == <<" ","g","r","o","u","p"," ","p","h","o","t","o">>
ImageSuffix == <<" ","i","m","a","g","e">>

\* `gallery-${i+1}`, for the i+1 that occur
galleryTypeOf(n) ==
    CASE n = 1 -> "gallery-1" [] n = 2 -> "gallery-2" [] n = 3 -> "gallery-3"
      [] n = 4 -> "gallery-4" [] n = 5 -> "gallery-5" [] OTHER -> "gallery-6"

\* the gallery cases of the switch statements
GalleryTypes == <<"gallery-1", "gallery-2", "gallery-3", "gallery-4">>

\* the alt text without the title-casing of the slug
generateAltTextFromSlug(clubName, imageType) ==
    clubName \o
       (CASE imageType = "hero" -> HeroSuffix
          [] imageType = "logo" -> LogoSuffix
          [] imageType \in Range(GalleryTypes) -> GallerySuffix
          [] OTHER -> ImageSuffix)

generateAltText(clubName, imageType) ==
    properClubName(clubName) \o
       (CASE imageType = "hero" -> HeroSuffix
          [] imageType = "logo" -> LogoSuffix
          [] imageType \in Range(GalleryTypes) -> GallerySuffix
          [] OTHER -> ImageSuffix)


(***************************************************************************)
(* The world outside the program, fixed for one run: which source URLs are *)
(* well formed, and how the network and the image store answer for each.   *)
(***************************************************************************)
GoodUrls == {"http://a", "http://b", "http://c"}
Unreachable == {"http://down"}      \* fetch answers non-2xx
Corrupt == {"http://corrupt"}       \* sharp cannot decode the bytes
Refused == {"http://refused"}       \* Cloudinary rejects the upload
Silent == {"http://silent"}         \* the server accepts and never answers
ValidUrls == GoodUrls \cup Unreachable \cup Corrupt \cup Refused \cup Silent
Malformed == "not a url"

\* new URL(string) does not throw
isValidUrl(string) == string \in ValidUrls

\* pixel width of the image behind a source URL
SourceWidth(url) == IF url = "http://a" THEN 200 ELSE 2000

Str(t) ==
    CASE t = "" -> <<>>
      [] t = " " -> <<" ">>
      [] t = "S1" -> <<"S","1">>
      [] t = "A b" -> <<"A"," ","b">>
      [] t = "a-b" -> <<"a","-","b">>
      [] t = "ab" -> <<"a","b">>
      [] t = "!" -> <<"!">>
      [] t = "Zz" -> <<"Z","z">>
      [] t = "Unknown Club" -> <<"U","n","k","n","o","w","n"," ","C","l","u","b">>
      [] t = "hero" -> <<"h","e","r","o">>
      [] t = "logo" -> <<"l","o","g","o">>
      [] t = "gallery" -> <<"g","a","l","l","e","r","y">>
      [] t = "gallery-1" -> <<"g","a","l","l","e","r","y","-","1">>
      [] t = "gallery-2" -> <<"g","a","l","l","e","r","y","-","2">>
      [] t = "gallery-3" -> <<"g","a","l","l","e","r","y","-","3">>
      [] t = "gallery-4" -> <<"g","a","l","l","e","r","y","-","4">>
      [] t = "gallery-5" -> <<"g","a","l","l","e","r","y","-","5">>
      [] t = "gallery-6" -> <<"g","a","l","l","e","r","y","-","6">>

(***************************************************************************)
(* Input rows of an uploaded CSV, after the scan: the columns the          *)
(* extractor reads (0 submission id, 10 club name, 27 hero, 28 logo, 29    *)
(* gallery, the gallery already split on commas and trimmed).              *)
(***************************************************************************)
Row(id, clubName, hero, logo, gallery) ==
    [submissionId |-> Str(id), clubName |-> Str(clubName),
     heroImage |-> hero, logoImage |-> logo, galleryEntries |-> gallery]

RowSet ==
    { Row("S1", "A b", "http://a", "http://b", <<>>),
      Row("", "A b", "http://down", "http://b", <<>>),
      Row(" ", "", "http://a", "", <<>>),
      Row("", "!", "", "",
          <<"http://a", "http://corrupt", "http://b", "http://refused", "http://c">>),
      Row("S1", "ab", "http://down", "http://corrupt", <<>>),
      Row("", "A b", "", "", <<Malformed>>),
      Row("S1", "A b", Malformed, "", <<>>) }

MaxClubs == 2

SeqsUpTo(S, n) == UNION {[1..k -> S] : k \in 1..n}

\* parseCSV, lines 129-152: one data row to a club, or no club
HasImage(row) ==
    \/ (row.heroImage # "" /\ isValidUrl(row.heroImage))
    \/ (row.logoImage # "" /\ isValidUrl(row.logoImage))
    \/ row.galleryEntries # <<>>

ExtractClub(row) ==
    [name |-> cleanClubName(IF row.clubName # <<>> THEN row.clubName
                            ELSE Str("Unknown Club")),
     originalName |-> row.clubName,
     heroImage |-> IF row.heroImage # "" /\ isValidUrl(row.heroImage)
                   THEN row.heroImage ELSE NULL,
     logoImage |-> IF row.logoImage # "" /\ isValidUrl(row.logoImage)
                   THEN row.logoImage ELSE NULL,
     galleryImages |-> SelectSeq(row.galleryEntries,
                                 LAMBDA url : url # "" /\ isValidUrl(url)),
     submissionId |-> row.submissionId]

RECURSIVE ExtractClubs(_)
ExtractClubs(rs) ==
    IF rs = <<>> THEN <<>>
    ELSE (IF HasImage(Head(rs)) THEN <<ExtractClub(Head(rs))>> ELSE <<>>)
         \o ExtractClubs(Tail(rs))


(***************************************************************************)
(* The Airtable base: record id -> fields (a function from field name to   *)
(* value).  One of a few bases is in place when the run starts.            *)
(***************************************************************************)
NoFields == [f \in {} |-> NULL]
StoreSet ==
    { [r \in {} |-> NoFields],
      [r \in {"rec1", "rec2"} |->
          IF r = "rec1"
          THEN [f \in {"Submission ID", "Name", "Notes"} |->
                  CASE f = "Submission ID" -> Str("S1")
                    [] f = "Name" -> Str("Zz")
                    [] OTHER -> Str("ab")]
          ELSE [f \in {"Name", "Hero URL"} |->
                  IF f = "Name" THEN Str("A b") ELSE Str("Zz")]],
      [r \in {"rec3", "rec4", "rec5"} |-> [f \in {"Name"} |->
            CASE r = "rec3" -> Str("a-b")
              [] r = "rec4" -> Str("ab")
              [] OTHER -> Str("!")]] }

AirtableVars == {"AIRTABLE_BASE_ID", "AIRTABLE_TABLE_NAME", "AIRTABLE_TOKEN"}

VARIABLES
    entry,          \* which entry point serves the request
    input,          \* the request: uploaded rows, webhook body or batch clubs
    envAirtable,    \* the AIRTABLE_* environment variables that are set
    envCloudinary,  \* TRUE when the Cloudinary credentials are set
    airtable,       \* the Airtable base
    cdn,            \* public ids published to Cloudinary
    pc,             \* position of the handler
    clubs,          \* const clubs = parseCSV(csvContent)
    ci,             \* index of the club of the for-of loop (1-based)
    gi,             \* i of the gallery loop
    clubResult,     \* the result under construction
    results,        \* const results = []
    ri,             \* index of the result of the reconciliation loop
    names,          \* names of strategy 2
    ni,             \* index into names
    searchResponse, \* let searchResponse (NULL: undefined)
    searchData,     \* let searchData (NULL: undefined)
    attempts,       \* transforms started, in order: <<club index, type>>
    queries,        \* search requests sent to Airtable, in order
    patches,        \* PATCH requests sent to Airtable, in order
    response,       \* what the handler answered
    csvText,        \* parseCSV: the text of the uploaded file
    scanIndex,      \* parseCSV: let i = 0
    currentRow,     \* parseCSV: let currentRow = []
    currentField,   \* parseCSV: let currentField = ''
    inQuotes,       \* parseCSV: let inQuotes = false
    rows,           \* parseCSV: const rows = []
    rowIndex,       \* parseCSV: rowIndex of the extraction loop
    slug            \* the values of successive calls of a slug function

vars == <<entry, input, envAirtable, envCloudinary, airtable, cdn, pc, clubs,
          ci, gi, clubResult, results, ri, names, ni, searchResponse,
          searchData, attempts, queries, patches, response, csvText,
          scanIndex, currentRow, currentField, inQuotes, rows, rowIndex, slug>>

world == <<entry, input, envAirtable, envCloudinary>>
parser == <<csvText, scanIndex, currentRow, currentField, inQuotes, rows,
            rowIndex>>
reconVars == <<ri, names, ni, searchResponse, searchData, queries, patches, airtable>>

Min(a, b) == IF a < b THEN a ELSE b

\* let searchResponse; let searchData; (both undefined)
Undefined == "undefined"
NoData == [defined |-> FALSE, records |-> {}]

\* airtableUpdate: null
NoUpdate == [success |-> FALSE]

NewClubResult(name, cleanName, submissionId) ==
    [name |-> name, cleanName |-> cleanName, submissionId |-> submissionId,
     processed |-> <<>>, errors |-> <<>>, cloudinaryUrls |-> <<>>,
     airtableUpdate |-> NoUpdate]

NoResult == NewClubResult(<<>>, <<>>, <<>>)

\* nothing has been answered yet
NoResponse == [status |-> 0, results |-> <<>>]

\* parseCSV has not been entered, no slug has been computed
ParserIdle ==
    /\ csvText = <<>>
    /\ scanIndex = 0
    /\ currentRow = <<>>
    /\ currentField = <<>>
    /\ inQuotes = FALSE
    /\ rows = <<>>
    /\ rowIndex = 1
    /\ slug = <<>>

Idle ==
    /\ ParserIdle
    /\ airtable \in StoreSet
    /\ envAirtable \in SUBSET AirtableVars
    /\ envCloudinary \in BOOLEAN
    /\ cdn = {}
    /\ pc = "start"
    /\ clubs = <<>>
    /\ ci = 1
    /\ gi = 0
    /\ clubResult = NoResult
    /\ results = <<>>
    /\ ri = 1
    /\ names = <<>>
    /\ ni = 1
    /\ searchResponse = Undefined
    /\ searchData = NoData
    /\ attempts = <<>>
    /\ queries = <<>>
    /\ patches = <<>>
    /\ response = NoResponse

InitUpload ==
    /\ entry \in {"upload", "upload2"}
    /\ input \in SeqsUpTo(RowSet, MaxClubs)
    /\ Idle

(***************************************************************************)
(* processImageToCloudinary: download, resize and re-encode, publish.      *)
(* The value is the resolved asset or the thrown error.                    *)
(***************************************************************************)
\* a public id that also carries the position of the club in the run
publicIdPerClub(clubName, imageType) ==
    clubName \o <<"-">> \o Str(imageType)
       \o (IF ci > 1 THEN <<"-", "n">> ELSE <<>>)

publicIdOf(clubName, imageType) == clubName \o <<"-">> \o Str(imageType)

\* the transform without withoutEnlargement: the output has the target width
processImageToCloudinaryEnlarging(imageUrl, clubName, imageType, targetWidth) ==
    IF ~envCloudinary
    THEN [ok |-> FALSE, error |-> "Cloudinary not configured"]
    ELSE IF imageUrl \in Unreachable
    THEN [ok |-> FALSE, error |-> "Failed to download image"]
    ELSE IF imageUrl \in Corrupt
    THEN [ok |-> FALSE, error |-> "Input buffer contains unsupported image format"]
    ELSE IF imageUrl \in Refused
    THEN [ok |-> FALSE, error |-> "Cloudinary upload failed"]
    ELSE [ok |-> TRUE,
          value |-> [originalUrl |-> imageUrl,
                     cloudinaryUrl |-> <<"https://res.cloudinary.com/">>
                                       \o publicIdOf(clubName, imageType),
                     publicId |-> publicIdOf(clubName, imageType),
                     altText |-> generateAltText(clubName, imageType),
                     width |-> targetWidth,
                     type |-> imageType]]

processImageToCloudinary(imageUrl, clubName, imageType, targetWidth) ==
    IF ~envCloudinary
    THEN [ok |-> FALSE, error |-> "Cloudinary not configured"]
    ELSE IF imageUrl \in Unreachable
    THEN [ok |-> FALSE, error |-> "Failed to download image"]
    ELSE IF imageUrl \in Corrupt
    THEN [ok |-> FALSE, error |-> "Input buffer contains unsupported image format"]
    ELSE IF imageUrl \in Refused
    THEN [ok |-> FALSE, error |-> "Cloudinary upload failed"]
    ELSE [ok |-> TRUE,
          value |-> [originalUrl |-> imageUrl,
                     cloudinaryUrl |-> <<"https://res.cloudinary.com/">>
                                       \o publicIdOf(clubName, imageType),
                     publicId |-> publicIdOf(clubName, imageType),
                     altText |-> generateAltText(clubName, imageType),
                     width |-> Min(SourceWidth(imageUrl), targetWidth),
                     type |-> imageType]]

\* TrySlot with an empty catch block: the failure is not recorded
TrySlotSwallow(imageUrl, clubName, imageType, targetWidth, label) ==
    LET r == processImageToCloudinary(imageUrl, clubName, imageType, targetWidth)
    IN  /\ ~(envCloudinary /\ imageUrl \in Silent)
        /\ attempts' = Append(attempts, <<ci, imageType>>)
        /\ IF r.ok
           THEN /\ clubResult' =
                     [clubResult EXCEPT
                        !.processed = Append(@, r.value),
                        !.cloudinaryUrls = Append(@, r.value.cloudinaryUrl)]
                /\ cdn' = cdn \cup {r.value.publicId}
           ELSE /\ clubResult' = clubResult
                /\ cdn' = cdn

\* one try/catch block around a transform: push the asset or push the error;
\* `await fetch(imageUrl)`, reached when Cloudinary is configured, is given no
\* timeout, so the step is taken only when the source answers
TrySlot(imageUrl, clubName, imageType, targetWidth, label) ==
    LET r == processImageToCloudinary(imageUrl, clubName, imageType, targetWidth)
    IN  /\ ~(envCloudinary /\ imageUrl \in Silent)
        /\ attempts' = Append(attempts, <<ci, imageType>>)
        /\ IF r.ok
           THEN /\ clubResult' =
                     [clubResult EXCEPT
                        !.processed = Append(@, r.value),
                        !.cloudinaryUrls = Append(@, r.value.cloudinaryUrl)]
                /\ cdn' = cdn \cup {r.value.publicId}
           ELSE /\ clubResult' =
                     [clubResult EXCEPT !.errors = Append(@, <<label, r.error>>)]
                /\ cdn' = cdn

HeroMaxWidth == 1600
LogoMaxWidth == 400
GalleryMaxWidth == 1200
MaxGalleryLoose == 4 + 1
MaxGallery == 4

\* `Gallery image ${i+1}`
galleryLabelOf(n) ==
    CASE n = 1 -> "Gallery image 1" [] n = 2 -> "Gallery image 2"
      [] n = 3 -> "Gallery image 3" [] n = 4 -> "Gallery image 4"
      [] n = 5 -> "Gallery image 5" [] OTHER -> "Gallery image 6"


(***************************************************************************)
(* app.post('/api/process-images'): the CSV-upload orchestrator.           *)
(***************************************************************************)
IsUpload == entry \in {"upload", "upload2"}

\* parseCSV and the empty check
ParseUpload ==
    /\ IsUpload /\ pc = "start"
    /\ clubs' = ExtractClubs(input)
    /\ IF clubs' = <<>>
       THEN /\ pc' = "done"
            /\ response' = [status |-> 400, results |-> <<>>]
            /\ clubResult' = clubResult
       ELSE /\ pc' = "hero"
            /\ response' = response
            /\ clubResult' = NewClubResult(clubs'[1].originalName, clubs'[1].name,
                                           clubs'[1].submissionId)
    /\ UNCHANGED <<world, parser, slug,
                   cdn, ci, gi, results, attempts, reconVars>>

UploadHero ==
    /\ IsUpload /\ pc = "hero"
    /\ IF clubs[ci].heroImage # NULL
       THEN TrySlot(clubs[ci].heroImage, clubs[ci].name, "hero", HeroMaxWidth,
                    "Hero image")
       ELSE UNCHANGED <<clubResult, cdn, attempts>>
    /\ pc' = "logo"
    /\ UNCHANGED <<world, parser, slug,
                   clubs, ci, gi, results, response, reconVars>>

UploadLogo ==
    /\ IsUpload /\ pc = "logo"
    /\ IF clubs[ci].logoImage # NULL
       THEN TrySlot(clubs[ci].logoImage, clubs[ci].name, "logo", LogoMaxWidth,
                    "Logo image")
       ELSE UNCHANGED <<clubResult, cdn, attempts>>
    /\ pc' = "gallery"
    /\ gi' = 0
    /\ UNCHANGED <<world, parser, slug,
                   clubs, ci, results, response, reconVars>>

\* one iteration of: for (let i = 0; i < galleryImages.length && i < 4; i++)
UploadGallery ==
    /\ IsUpload /\ pc = "gallery"
    /\ gi < Len(clubs[ci].galleryImages) /\ gi < MaxGallery
    /\ IF clubs[ci].galleryImages[gi + 1] # ""
       THEN TrySlot(clubs[ci].galleryImages[gi + 1], clubs[ci].name,
                    galleryTypeOf(gi + 1), GalleryMaxWidth,
                    galleryLabelOf(gi + 1))
       ELSE UNCHANGED <<clubResult, cdn, attempts>>
    /\ gi' = gi + 1
    /\ UNCHANGED <<world, parser, slug,
                   pc, clubs, ci, results, response, reconVars>>

\* results.push(clubResult), then the next club or the Airtable phase
UploadPush ==
    /\ IsUpload /\ pc = "gallery"
    /\ ~(gi < Len(clubs[ci].galleryImages) /\ gi < MaxGallery)
    /\ results' = Append(results, clubResult)
    /\ IF ci < Len(clubs)
       THEN /\ ci' = ci + 1
            /\ clubResult' = NewClubResult(clubs[ci + 1].originalName,
                                           clubs[ci + 1].name,
                                           clubs[ci + 1].submissionId)
            /\ pc' = "hero"
       ELSE /\ ci' = ci
            /\ clubResult' = clubResult
            /\ pc' = "airtable"
    /\ gi' = 0
    /\ UNCHANGED <<world, parser, slug,
                   cdn, clubs, attempts, response, reconVars>>


(***************************************************************************)
(* updateAirtableRecord(clubResult), called for results[ri].               *)
(***************************************************************************)
\* the records of the base that satisfy {field} = "value"
Matching(field, value) ==
    {r \in DOMAIN airtable :
        field \in DOMAIN airtable[r] /\ airtable[r][field] = value}

\* what a request to Airtable can come to: 2xx, non-2xx, or fetch rejects
Replies == {"ok", "rejected", "threw"}

\* CatchAirtable with an empty catch block
CatchAirtableSilent(message) ==
    /\ results' = results
    /\ ri' = ri + 1
    /\ pc' = "recon"

\* CatchAirtable with the try/catch around the whole loop instead of inside it
CatchAirtableAbort(message) ==
    /\ results' = [results EXCEPT ![ri].errors =
                      Append(@, <<"Airtable update failed", message>>)]
    /\ ri' = ri
    /\ pc' = "respond"

\* catch (error) { result.errors.push(`Airtable update failed: ...`) }
CatchAirtable(message) ==
    /\ results' = [results EXCEPT ![ri].errors =
                      Append(@, <<"Airtable update failed", message>>)]
    /\ ri' = ri + 1
    /\ pc' = "recon"

\* AirtableConfigured testing the token only
TokenConfigured == "AIRTABLE_TOKEN" \in envAirtable

\* if (AIRTABLE_BASE_ID && AIRTABLE_TABLE_NAME && AIRTABLE_TOKEN) ... else skip
AirtableConfigured == AirtableVars \subseteq envAirtable

\* ShouldReconcile without the length test
AlwaysReconcile(result) == TRUE

\* if (result.processed.length > 0)
ShouldReconcile(result) == result.processed # <<>>

\* HasSubmissionId without the trim
HasSubmissionIdNoTrim(result) == result.submissionId # <<>>

\* if (clubResult.submissionId && clubResult.submissionId.trim())
HasSubmissionId(result) == NonBlank(result.submissionId)

\* HitBreaks without the break
NeverBreaks(records) == FALSE

\* if (searchData.records.length > 0) { ...; break; }
HitBreaks(records) == records # {}

\* [clubResult.name, clubResult.cleanName].filter(n => n && n.trim()), each
\* with the key it stands for
NamesToTry(result) ==
    SelectSeq(<<[kind |-> "name", value |-> result.name],
                [kind |-> "slug", value |-> result.cleanName]>>,
              LAMBDA n : NonBlank(n.value))

AirtableGate ==
    /\ IsUpload /\ pc = "airtable"
    /\ IF AirtableConfigured
       THEN pc' = "recon" /\ ri' = 1
       ELSE pc' = "respond" /\ ri' = ri
    /\ UNCHANGED <<world, parser, slug,
                   cdn, clubs, ci, gi, clubResult, results, attempts,
                   response, names, ni, searchResponse, searchData, queries,
                   patches, airtable>>

\* head of: for (const result of results) { if (result.processed.length > 0)
ReconNext ==
    /\ pc = "recon"
    /\ IF ri > Len(results)
       THEN pc' = "respond" /\ ri' = ri
       ELSE IF ~ShouldReconcile(results[ri])
            THEN pc' = "recon" /\ ri' = ri + 1
            ELSE pc' = "s1" /\ ri' = ri
    /\ searchResponse' = Undefined
    /\ searchData' = NoData
    /\ names' = <<>>
    /\ ni' = 1
    /\ UNCHANGED <<world, parser, slug,
                   cdn, clubs, ci, gi, clubResult, results, attempts,
                   response, queries, patches, airtable>>

\* Strategy 1: the Submission ID, if it is not blank
SearchSubmissionId ==
    /\ pc = "s1"
    /\ IF HasSubmissionId(results[ri])
       THEN \E reply \in Replies :
              /\ queries' = Append(queries,
                               [club |-> ri, kind |-> "id",
                                field |-> "Submission ID",
                                value |-> results[ri].submissionId,
                                reply |-> reply,
                                found |-> reply = "ok" /\
                                   Matching("Submission ID",
                                            results[ri].submissionId) # {}])
              /\ IF reply = "threw"
                 THEN /\ CatchAirtable("request failed")
                      /\ UNCHANGED <<searchResponse, searchData>>
                 ELSE /\ searchResponse' = reply
                      /\ searchData' =
                           IF reply = "ok"
                           THEN [defined |-> TRUE,
                                 records |-> Matching("Submission ID",
                                                 results[ri].submissionId)]
                           ELSE searchData
                      /\ pc' = "s2"
                      /\ UNCHANGED <<results, ri>>
       ELSE /\ pc' = "s2"
            /\ UNCHANGED <<queries, searchResponse, searchData, results, ri>>
    /\ UNCHANGED <<world, parser, slug,
                   cdn, clubs, ci, gi, clubResult, attempts, response,
                   names, ni, patches, airtable>>

\* Strategy 2, entry: the names to try, original name first, then clean name
SearchNames ==
    /\ pc = "s2"
    /\ IF (~searchData.defined \/ searchData.records = {})
          /\ NonBlank(results[ri].name)
       THEN /\ names' = NamesToTry(results[ri])
            /\ pc' = "s2loop"
       ELSE /\ names' = names
            /\ pc' = "s3"
    /\ ni' = 1
    /\ UNCHANGED <<world, parser, slug,
                   cdn, clubs, ci, gi, clubResult, results, attempts,
                   response, ri, searchResponse, searchData, queries, patches,
                   airtable>>

\* Strategy 2, one iteration of: for (const nameToTry of names)
SearchName ==
    /\ pc = "s2loop"
    /\ IF ni > Len(names)
       THEN /\ pc' = "s3"
            /\ UNCHANGED <<queries, searchResponse, searchData, results, ri, ni>>
       ELSE \E reply \in Replies :
              /\ queries' = Append(queries,
                               [club |-> ri, kind |-> names[ni].kind,
                                field |-> "Name", value |-> names[ni].value,
                                reply |-> reply,
                                found |-> reply = "ok" /\
                                   Matching("Name", names[ni].value) # {}])
              /\ IF reply = "threw"
                 THEN /\ CatchAirtable("request failed")
                      /\ UNCHANGED <<searchResponse, searchData, ni>>
                 ELSE /\ searchResponse' = reply
                      /\ searchData' =
                           IF reply = "ok"
                           THEN [defined |-> TRUE,
                                 records |-> Matching("Name", names[ni].value)]
                           ELSE searchData
                      /\ IF reply = "ok" /\ HitBreaks(Matching("Name", names[ni].value))
                         THEN pc' = "s3" /\ ni' = ni
                         ELSE pc' = "s2loop" /\ ni' = ni + 1
                      /\ UNCHANGED <<results, ri>>
    /\ UNCHANGED <<world, parser, slug,
                   cdn, clubs, ci, gi, clubResult, attempts, response,
                   names, patches, airtable>>

\* CheckSearch with the two checks in the other order
CheckSearchDataFirst ==
    /\ pc = "s3"
    /\ IF searchResponse = Undefined
       THEN CatchAirtable("Cannot read properties of undefined")
       ELSE IF ~searchData.defined \/ searchData.records = {}
       THEN CatchAirtable("No matching Airtable record found")
       ELSE IF searchResponse # "ok"
       THEN CatchAirtable("Airtable search failed")
       ELSE pc' = "patch" /\ UNCHANGED <<results, ri>>
    /\ UNCHANGED <<world, parser, slug,
                   cdn, clubs, ci, gi, clubResult, attempts, response,
                   names, ni, searchResponse, searchData, queries, patches,
                   airtable>>

\* the two checks after the searches
CheckSearch ==
    /\ pc = "s3"
    /\ IF searchResponse = Undefined
       THEN CatchAirtable("Cannot read properties of undefined")
       ELSE IF searchResponse # "ok"
       THEN CatchAirtable("Airtable search failed")
       ELSE IF ~searchData.defined \/ searchData.records = {}
       THEN CatchAirtable("No matching Airtable record found")
       ELSE pc' = "patch" /\ UNCHANGED <<results, ri>>
    /\ UNCHANGED <<world, parser, slug,
                   cdn, clubs, ci, gi, clubResult, attempts, response,
                   names, ni, searchResponse, searchData, queries, patches,
                   airtable>>


(***************************************************************************)
(* The update payload.  A payload is a function from field name to value.  *)
(***************************************************************************)
HasType(processed, t) == \E i \in 1..Len(processed) : processed[i].type = t

\* the last asset of the given type (the later assignment wins)
OfType(processed, t) ==
    processed[CHOOSE i \in 1..Len(processed) :
                 /\ processed[i].type = t
                 /\ \A j \in (i+1)..Len(processed) : processed[j].type # t]

GalleryAltFields == <<"Gallery 1 Alt Text", "Gallery 2 Alt Text",
                      "Gallery 3 Alt Text", "Gallery 4 Alt Text">>

\* the gallery URLs listed from the last slot to the first
galleryUrlsReversed(processed) ==
    LET Pick(k) == IF HasType(processed, GalleryTypes[k])
                   THEN <<OfType(processed, GalleryTypes[k]).cloudinaryUrl>>
                   ELSE <<>>
    IN  Pick(4) \o Pick(3) \o Pick(2) \o Pick(1)

\* const galleryUrls = []; galleryUrls[k-1] = url; then .filter(url => url)
galleryUrlsOf(processed) ==
    LET Pick(k) == IF HasType(processed, GalleryTypes[k])
                   THEN <<OfType(processed, GalleryTypes[k]).cloudinaryUrl>>
                   ELSE <<>>
    IN  Pick(1) \o Pick(2) \o Pick(3) \o Pick(4)

\* the switch over clubResult.processed
SlotFieldNames(processed) ==
    (IF HasType(processed, "hero") THEN {"Hero URL", "Hero Alt Text"} ELSE {})
    \cup (IF HasType(processed, "logo") THEN {"Logo URL", "Logo Alt Text"} ELSE {})
    \cup {GalleryAltFields[k] : k \in {j \in 1..4 : HasType(processed, GalleryTypes[j])}}

SlotFieldValue(processed, f) ==
    CASE f = "Hero URL" -> OfType(processed, "hero").cloudinaryUrl
      [] f = "Hero Alt Text" -> OfType(processed, "hero").altText
      [] f = "Logo URL" -> OfType(processed, "logo").cloudinaryUrl
      [] f = "Logo Alt Text" -> OfType(processed, "logo").altText
      [] OTHER -> OfType(processed,
                     GalleryTypes[CHOOSE k \in 1..4 : GalleryAltFields[k] = f]).altText

MarkerFields == {"Status", "Last Modified", "Processed"}

\* updateFields of the first server (Status, Last Modified, Processed are set)
updateFieldsClean(processed) ==
    LET gallery == galleryUrlsOf(processed)
        dom == SlotFieldNames(processed)
               \cup (IF gallery # <<>> THEN {"Gallery URLs (JSON)"} ELSE {})
               \cup MarkerFields
    IN  [f \in dom |->
           CASE f = "Gallery URLs (JSON)" -> gallery
             [] f = "Status" -> <<"Images Processed">>
             [] f = "Last Modified" -> <<"now">>
             [] f = "Processed" -> <<"1">>
             [] OTHER -> SlotFieldValue(processed, f)]

\* updateFields of the webhook server
updateFieldsHooks(processed) ==
    LET gallery == galleryUrlsOf(processed)
        dom == SlotFieldNames(processed)
               \cup (IF gallery # <<>> THEN {"Photo Gallery Url"} ELSE {})
    IN  [f \in dom |->
           CASE f = "Photo Gallery Url" ->
                    [i \in 1..Len(gallery) |-> [url |-> gallery[i]]]
             [] OTHER -> SlotFieldValue(processed, f)]

\* updateFieldsOf that also blanks the URL fields of the slots without asset
updateFieldsBlanking(processed) ==
    LET real == IF entry = "upload" THEN updateFieldsClean(processed)
                ELSE updateFieldsHooks(processed)
    IN  [f \in DOMAIN real \cup {"Hero URL", "Logo URL"} |->
            IF f \in DOMAIN real THEN real[f] ELSE <<>>]

updateFieldsOf(processed) ==
    IF entry = "upload" THEN updateFieldsClean(processed)
    ELSE updateFieldsHooks(processed)

\* a full-record replace (PUT): the record becomes the payload
PutFields(old, upd) == upd

\* Airtable's PATCH: the named fields are replaced, the others are kept
PatchFields(old, upd) ==
    [f \in DOMAIN old \cup DOMAIN upd |->
        IF f \in DOMAIN upd THEN upd[f] ELSE old[f]]

\* const recordId = searchData.records[0].id, the payload and the PATCH
PatchRecord ==
    /\ pc = "patch"
    /\ LET recordId == CHOOSE r \in searchData.records : TRUE
           updateFields == updateFieldsOf(results[ri].processed)
       IN  \E reply \in Replies :
             /\ patches' = Append(patches, [club |-> ri, recordId |-> recordId,
                                            fields |-> updateFields])
             /\ IF reply = "ok"
                THEN /\ airtable' = [airtable EXCEPT ![recordId] =
                                        PatchFields(@, updateFields)]
                     /\ results' = [results EXCEPT ![ri].airtableUpdate =
                           [success |-> TRUE, recordId |-> recordId,
                            fieldsUpdated |-> Cardinality(DOMAIN updateFields)]]
                     /\ ri' = ri + 1
                     /\ pc' = "recon"
                ELSE /\ airtable' = airtable
                     /\ CatchAirtable("Airtable update failed")
    /\ UNCHANGED <<world, parser, slug,
                   cdn, clubs, ci, gi, clubResult, attempts, response,
                   names, ni, searchResponse, searchData, queries>>

\* Respond that answers only the results that hold an asset
RespondWithAssetsOnly ==
    /\ pc = "respond"
    /\ response' = [status |-> 200,
                    results |-> SelectSeq(results,
                                          LAMBDA r : r.processed # <<>>)]
    /\ pc' = "done"
    /\ UNCHANGED <<world, parser, slug,
                   cdn, clubs, ci, gi, clubResult, results, attempts,
                   reconVars>>

\* fs.unlink and res.json({ success: true, clubsProcessed, results })
Respond ==
    /\ pc = "respond"
    /\ response' = [status |-> 200, results |-> results]
    /\ pc' = "done"
    /\ UNCHANGED <<world, parser, slug,
                   cdn, clubs, ci, gi, clubResult, results, attempts,
                   reconVars>>

(***************************************************************************)
(* app.post('/api/process-webhook'): one club per request, sent by n8n.    *)
(***************************************************************************)
Body(clubName, id, hero, logo, gallery) ==
    [clubName |-> Str(clubName), submissionId |-> Str(id),
     heroImageUrl |-> hero, logoImageUrl |-> logo, galleryImageUrls |-> gallery]

NoGallery == [present |-> FALSE, isArray |-> FALSE, entries |-> <<>>]
ArrayOf(entries) == [present |-> TRUE, isArray |-> TRUE, entries |-> entries]
\* a comma-separated string, given by its entries after split and trim
StringOf(entries) ==
    [present |-> entries # <<>>, isArray |-> FALSE, entries |-> entries]

BodySet ==
    { Body("A b", "S1", "http://a", "http://down",
           ArrayOf(<<Malformed, "http://b", "", "http://c", "http://a">>)),
      Body("", "S1", "http://a", "", NoGallery),
      Body("ab", "", "", "", NoGallery),
      Body("!", " ", Malformed, "",
           StringOf(<<"http://corrupt", Malformed, "http://a">>)),
      Body("A b", "", "http://down", "http://corrupt", NoGallery),
      Body("ab", "", "", "http://b", ArrayOf(<<>>)) }

InitWebhook ==
    /\ entry = "webhook"
    /\ input \in BodySet
    /\ Idle

IsWebhook == entry = "webhook"

\* let galleryUrls: the array as sent, or the string split, trimmed, filtered
HookGalleryUrls(body) ==
    IF ~body.galleryImageUrls.present THEN <<>>
    ELSE IF body.galleryImageUrls.isArray THEN body.galleryImageUrls.entries
    ELSE SelectSeq(body.galleryImageUrls.entries,
                   LAMBDA url : url # "" /\ isValidUrl(url))

\* the two validations and the result object
HookStart ==
    /\ IsWebhook /\ pc = "start"
    /\ IF input.clubName = <<>>
          \/ (input.heroImageUrl = "" /\ input.logoImageUrl = ""
              /\ ~input.galleryImageUrls.present)
       THEN /\ pc' = "done"
            /\ response' = [status |-> 400, results |-> <<>>]
            /\ clubResult' = clubResult
       ELSE /\ pc' = "hero"
            /\ response' = response
            /\ clubResult' = NewClubResult(input.clubName,
                                           cleanClubName(input.clubName),
                                           input.submissionId)
    /\ UNCHANGED <<world, parser, slug,
                   cdn, clubs, ci, gi, results, attempts, reconVars>>

HookHero ==
    /\ IsWebhook /\ pc = "hero"
    /\ IF input.heroImageUrl # "" /\ isValidUrl(input.heroImageUrl)
       THEN TrySlot(input.heroImageUrl, clubResult.cleanName, "hero",
                    HeroMaxWidth, "Hero image")
       ELSE UNCHANGED <<clubResult, cdn, attempts>>
    /\ pc' = "logo"
    /\ UNCHANGED <<world, parser, slug,
                   clubs, ci, gi, results, response, reconVars>>

HookLogo ==
    /\ IsWebhook /\ pc = "logo"
    /\ IF input.logoImageUrl # "" /\ isValidUrl(input.logoImageUrl)
       THEN TrySlot(input.logoImageUrl, clubResult.cleanName, "logo",
                    LogoMaxWidth, "Logo image")
       ELSE UNCHANGED <<clubResult, cdn, attempts>>
    /\ pc' = "gallery"
    /\ gi' = 0
    /\ UNCHANGED <<world, parser, slug,
                   clubs, ci, results, response, reconVars>>

HookGallery ==
    /\ IsWebhook /\ pc = "gallery"
    /\ LET galleryUrls == HookGalleryUrls(input)
       IN  /\ gi < Len(galleryUrls) /\ gi < MaxGallery
           /\ IF galleryUrls[gi + 1] # "" /\ isValidUrl(galleryUrls[gi + 1])
              THEN TrySlot(galleryUrls[gi + 1], clubResult.cleanName,
                           galleryTypeOf(gi + 1), GalleryMaxWidth,
                           galleryLabelOf(gi + 1))
              ELSE UNCHANGED <<clubResult, cdn, attempts>>
    /\ gi' = gi + 1
    /\ UNCHANGED <<world, parser, slug,
                   pc, clubs, ci, results, response, reconVars>>

\* HookGate taken while gallery slots are still to be transformed
HookGateEarly ==
    /\ IsWebhook /\ pc = "gallery"
    /\ results' = <<clubResult>>
    /\ IF AirtableConfigured
       THEN pc' = "recon" /\ ri' = 1
       ELSE pc' = "respond" /\ ri' = ri
    /\ UNCHANGED <<world, parser, slug,
                   cdn, clubs, ci, gi, clubResult, attempts, response,
                   names, ni, searchResponse, searchData, queries, patches,
                   airtable>>

\* if (AIRTABLE_BASE_ID && AIRTABLE_TABLE_NAME && AIRTABLE_TOKEN): reconcile
\* clubResult (held as results[1] from here on)
HookGate ==
    /\ IsWebhook /\ pc = "gallery"
    /\ LET galleryUrls == HookGalleryUrls(input)
       IN  ~(gi < Len(galleryUrls) /\ gi < MaxGallery)
    /\ results' = <<clubResult>>
    /\ IF AirtableConfigured
       THEN pc' = "recon" /\ ri' = 1
       ELSE pc' = "respond" /\ ri' = ri
    /\ UNCHANGED <<world, parser, slug,
                   cdn, clubs, ci, gi, clubResult, attempts, response,
                   names, ni, searchResponse, searchData, queries, patches,
                   airtable>>

(***************************************************************************)
(* api/process-images.js: processImage, the per-image endpoint that        *)
(* processBatch calls once per slot.                                       *)
(***************************************************************************)
\* .replace(/[^a-z0-9\s-]/g, '')
StripNonSlug(s) ==
    SelectSeq(s, LAMBDA c : c \in Range(Lowers) \/ c \in Digits
                            \/ IsSpace(c) \/ c = "-")

\* .replace(/-+/g, '-')
RECURSIVE CollapseHyphens(_)
CollapseHyphens(s) ==
    IF s = <<>> THEN <<>>
    ELSE IF Head(s) = "-" /\ Len(s) > 1 /\ s[2] = "-"
         THEN CollapseHyphens(Tail(s))
         ELSE <<Head(s)>> \o CollapseHyphens(Tail(s))

\* .trim()
RECURSIVE TrimLeft(_)
TrimLeft(s) == IF s # <<>> /\ IsSpace(Head(s)) THEN TrimLeft(Tail(s)) ELSE s
RECURSIVE TrimRight(_)
TrimRight(s) == IF s # <<>> /\ IsSpace(s[Len(s)])
                THEN TrimRight(SubSeq(s, 1, Len(s) - 1)) ELSE s
Trim(s) == TrimRight(TrimLeft(s))

apiSlug(clubName) ==
    Substring0(Trim(CollapseHyphens(SpacesToHyphen(StripNonSlug(
        LowerCase(clubName))))), SlugMaxLen)

IndexDigits == <<"1", "2", "3", "4", "5">>

\* `${slug}-${type}${index ? `-${index}` : ''}` (the name without .webp)
apiFilename(clubName, type, index) ==
    apiSlug(clubName) \o <<"-">> \o Str(type)
       \o (IF index # 0 THEN <<"-", IndexDigits[index]>> ELSE <<>>)

apiGenerateAltText(type, clubName) ==
    clubName \o (CASE type = "hero" -> HeroSuffix
                   [] type = "logo" -> LogoSuffix
                   [] type = "gallery" -> GallerySuffix
                   [] OTHER -> ImageSuffix)

\* the response of processImage: 200 with the result, or 500
processImage(imageUrl, type, clubName, index) ==
    IF ~isValidUrl(imageUrl) \/ imageUrl \in Unreachable \/ imageUrl \in Corrupt
       \/ (envCloudinary /\ imageUrl \in Refused)
    THEN [ok |-> FALSE]
    ELSE [ok |-> TRUE,
          published |-> envCloudinary,
          result |->
            [originalUrl |-> imageUrl,
             processedUrl |->
                (IF envCloudinary THEN <<"https://res.cloudinary.com/">>
                 ELSE <<"https://mock-cdn.com/">>)
                \o apiFilename(clubName, type, index),
             filename |-> apiFilename(clubName, type, index),
             altText |-> apiGenerateAltText(type, clubName),
             width |-> Min(SourceWidth(imageUrl),
                           CASE type = "hero" -> 1600
                             [] type = "logo" -> 400
                             [] OTHER -> 1200),
             type |-> type]]

(***************************************************************************)
(* processBatch followed by writeToAirtable on its results.                *)
(***************************************************************************)
BatchClub(name, airtableId, hero, logo, gallery) ==
    [name |-> Str(name), airtableId |-> airtableId, heroUrl |-> hero,
     logoUrl |-> logo, galleryUrls |-> gallery]

BatchClubSet ==
    { BatchClub("A b", "rec2", "http://a", "http://b", <<>>),
      BatchClub("ab", "rec4", "", "http://down",
                <<"http://corrupt", "http://a", "http://b", "http://c", "http://a">>),
      BatchClub("!", "rec1", "http://refused", "", <<Malformed, "http://c">>) }

InitBatch ==
    /\ entry = "batch"
    /\ input \in SeqsUpTo(BatchClubSet, MaxClubs)
    /\ Idle

IsBatch == entry = "batch"

NewBatchResult(clubName) ==
    [clubName |-> clubName,
     processedImages |-> [hero |-> <<>>, logo |-> <<>>, gallery |-> <<>>],
     status |-> "processing"]

\* clubResult.processedImages.hero = data.result, .logo = data.result,
\* .gallery.push(data.result)
StoreResult(cr, type, result) ==
    CASE type = "hero" -> [cr EXCEPT !.processedImages.hero = <<result>>]
      [] type = "logo" -> [cr EXCEPT !.processedImages.logo = <<result>>]
      [] OTHER -> [cr EXCEPT !.processedImages.gallery = Append(@, result)]

\* a request of processBatch to the image endpoint: the answer is recorded
\* when it is 2xx, ignored when it is not; a rejected fetch ends the club
BatchFetch(imageUrl, type, index, nextPc) ==
    \E net \in {"answered", "threw"} :
      /\ imageUrl \notin Silent
      /\ attempts' = Append(attempts, <<ci, type, index>>)
      /\ IF net = "threw"
         THEN /\ clubResult' = [clubResult EXCEPT !.status = "error"]
              /\ cdn' = cdn
              /\ pc' = "push"
         ELSE LET r == processImage(imageUrl, type, clubs[ci].name, index)
              IN  /\ clubResult' = IF r.ok
                                   THEN StoreResult(clubResult, type, r.result)
                                   ELSE clubResult
                  /\ cdn' = IF r.ok /\ r.published
                            THEN cdn \cup {r.result.filename} ELSE cdn
                  /\ pc' = nextPc

BatchStart ==
    /\ IsBatch /\ pc = "start"
    /\ clubs' = input
    /\ clubResult' = NewBatchResult(input[1].name)
    /\ pc' = "hero"
    /\ UNCHANGED <<world, parser, slug,
                   cdn, ci, gi, results, attempts, response, reconVars>>

BatchHero ==
    /\ IsBatch /\ pc = "hero"
    /\ IF clubs[ci].heroUrl # ""
       THEN BatchFetch(clubs[ci].heroUrl, "hero", 0, "logo")
       ELSE pc' = "logo" /\ UNCHANGED <<clubResult, cdn, attempts>>
    /\ UNCHANGED <<world, parser, slug,
                   clubs, ci, gi, results, response, reconVars>>

BatchLogo ==
    /\ IsBatch /\ pc = "logo"
    /\ IF clubs[ci].logoUrl # ""
       THEN BatchFetch(clubs[ci].logoUrl, "logo", 0, "gallery")
       ELSE pc' = "gallery" /\ UNCHANGED <<clubResult, cdn, attempts>>
    /\ gi' = 0
    /\ UNCHANGED <<world, parser, slug,
                   clubs, ci, results, response, reconVars>>

\* for (let i = 0; i < Math.min(club.galleryUrls.length, 4); i++)
BatchGallery ==
    /\ IsBatch /\ pc = "gallery"
    /\ gi < Min(Len(clubs[ci].galleryUrls), MaxGallery)
    /\ BatchFetch(clubs[ci].galleryUrls[gi + 1], "gallery", gi, "gallery")
    /\ gi' = gi + 1
    /\ UNCHANGED <<world, parser, slug,
                   clubs, ci, results, response, reconVars>>

\* clubResult.status = 'completed' at the end of the try block
BatchComplete ==
    /\ IsBatch /\ pc = "gallery"
    /\ ~(gi < Min(Len(clubs[ci].galleryUrls), MaxGallery))
    /\ clubResult' = [clubResult EXCEPT !.status = "completed"]
    /\ pc' = "push"
    /\ UNCHANGED <<world, parser, slug,
                   cdn, clubs, ci, gi, results, attempts, response,
                   reconVars>>

\* results.push(clubResult); after the last club res.json({ success, results })
BatchPush ==
    /\ IsBatch /\ pc = "push"
    /\ results' = Append(results, clubResult)
    /\ IF ci < Len(clubs)
       THEN /\ ci' = ci + 1
            /\ clubResult' = NewBatchResult(clubs[ci + 1].name)
            /\ pc' = "hero"
            /\ response' = response
       ELSE /\ ci' = ci
            /\ clubResult' = clubResult
            /\ pc' = "write"
            /\ response' = [status |-> 200, results |-> Append(results, clubResult)]
    /\ gi' = 0
    /\ UNCHANGED <<world, parser, slug, cdn, clubs, attempts, reconVars>>

GalleryUrlFields == <<"Gallery Image 1 Processed URL", "Gallery Image 2 Processed URL",
                      "Gallery Image 3 Processed URL", "Gallery Image 4 Processed URL">>
GalleryTextFields == <<"Gallery Image 1 Alt Text", "Gallery Image 2 Alt Text",
                       "Gallery Image 3 Alt Text", "Gallery Image 4 Alt Text">>

\* writeToAirtable: updateFields of one update
writeFields(processedImages) ==
    LET dom ==
          (IF processedImages.hero # <<>>
           THEN {"Hero Image Processed URL", "Hero Image Alt Text"} ELSE {})
          \cup (IF processedImages.logo # <<>>
                THEN {"Logo Image Processed URL", "Logo Image Alt Text"} ELSE {})
          \cup {GalleryUrlFields[k] : k \in 1..Len(processedImages.gallery)}
          \cup {GalleryTextFields[k] : k \in 1..Len(processedImages.gallery)}
    IN  [f \in dom |->
           CASE f = "Hero Image Processed URL" -> processedImages.hero[1].processedUrl
             [] f = "Hero Image Alt Text" -> processedImages.hero[1].altText
             [] f = "Logo Image Processed URL" -> processedImages.logo[1].processedUrl
             [] f = "Logo Image Alt Text" -> processedImages.logo[1].altText
             [] f \in Range(GalleryUrlFields) ->
                  processedImages.gallery[
                     CHOOSE k \in 1..4 : GalleryUrlFields[k] = f].processedUrl
             [] OTHER ->
                  processedImages.gallery[
                     CHOOSE k \in 1..4 : GalleryTextFields[k] = f].altText]

\* writeToAirtable, one iteration of: for (const update of updates), the
\* updates being the results of processBatch with their record ids
BatchWrite ==
    /\ IsBatch /\ pc = "write"
    /\ ri <= Len(results)
    /\ LET updateFields == writeFields(results[ri].processedImages)
           recordId == clubs[ri].airtableId
       IN  /\ patches' = Append(patches, [club |-> ri, recordId |-> recordId,
                                          fields |-> updateFields])
           /\ \E reply \in {"ok", "rejected"} :
                /\ reply = "ok" => recordId \in DOMAIN airtable
                /\ airtable' = IF reply = "ok"
                               THEN [airtable EXCEPT ![recordId] =
                                        PatchFields(@, updateFields)]
                               ELSE airtable
    /\ ri' = ri + 1
    /\ UNCHANGED <<world, parser, slug,
                   cdn, pc, clubs, ci, gi, clubResult, results, attempts,
                   response, names, ni, searchResponse, searchData, queries>>

BatchWritten ==
    /\ IsBatch /\ pc = "write"
    /\ ri > Len(results)
    /\ pc' = "done"
    /\ UNCHANGED <<world, parser, slug,
                   cdn, clubs, ci, gi, clubResult, results, attempts,
                   response, reconVars>>

(***************************************************************************)
(* parseCSV(csvText): the scan of the text into rows of fields, then the   *)
(* extraction of one club per data row.  Fields are texts.                 *)
(***************************************************************************)
IsParse == entry = "parse"

\* const char = csvText[i]; const nextChar = csvText[i + 1]
char == csvText[scanIndex + 1]
nextChar == IF scanIndex + 2 <= Len(csvText) THEN csvText[scanIndex + 2]
            ELSE Undefined

\* the scan takes no quote for an escaped one
NoEscapedQuote == FALSE

\* inQuotes && nextChar === '"'
IsEscapedQuote == inQuotes /\ nextChar = "\""

\* only the line feed ends a row
IsLineFeed(c) == c = "\n"

\* char === '\n' || char === '\r'
IsRowEnd(c) == c \in {"\n", "\r"}

\* every row that has a field is kept
KeepAnyRow(row) == Len(row) > 0

\* currentRow.length > 0 && currentRow.some(field => field.trim() !== '')
KeepRow(row) == Len(row) > 0 /\ \E k \in 1..Len(row) : NonBlank(row[k])

\* nothing is flushed while a quote is open
HasPendingClosed == ~inQuotes /\ (currentField # <<>> \/ Len(currentRow) > 0)

\* currentField !== '' || currentRow.length > 0
HasPending == currentField # <<>> \/ Len(currentRow) > 0

\* an escaped quote inside a quoted field
ScanEscapedQuote ==
    /\ IsParse /\ pc = "scan" /\ scanIndex < Len(csvText)
    /\ char = "\"" /\ IsEscapedQuote
    /\ currentField' = Append(currentField, "\"")
    /\ scanIndex' = scanIndex + 2
    /\ UNCHANGED <<world, airtable, cdn, pc, clubs, ci, gi, clubResult, results,
                   ri, names, ni, searchResponse, searchData, attempts,
                   queries, patches, response, csvText, currentRow, inQuotes,
                   rows, rowIndex, slug>>

\* start or end of a quoted field
ScanQuote ==
    /\ IsParse /\ pc = "scan" /\ scanIndex < Len(csvText)
    /\ char = "\"" /\ ~IsEscapedQuote
    /\ inQuotes' = ~inQuotes
    /\ scanIndex' = scanIndex + 1
    /\ UNCHANGED <<world, airtable, cdn, pc, clubs, ci, gi, clubResult, results,
                   ri, names, ni, searchResponse, searchData, attempts,
                   queries, patches, response, csvText, currentRow,
                   currentField, rows, rowIndex, slug>>

\* field separator
ScanComma ==
    /\ IsParse /\ pc = "scan" /\ scanIndex < Len(csvText)
    /\ char = "," /\ ~inQuotes
    /\ currentRow' = Append(currentRow, currentField)
    /\ currentField' = <<>>
    /\ scanIndex' = scanIndex + 1
    /\ UNCHANGED <<world, airtable, cdn, pc, clubs, ci, gi, clubResult, results,
                   ri, names, ni, searchResponse, searchData, attempts,
                   queries, patches, response, csvText, inQuotes, rows,
                   rowIndex, slug>>

\* row separator, \r\n skipped as one
ScanRowEnd ==
    /\ IsParse /\ pc = "scan" /\ scanIndex < Len(csvText)
    /\ IsRowEnd(char) /\ ~inQuotes
    /\ rows' = IF KeepRow(Append(currentRow, currentField))
                THEN Append(rows, Append(currentRow, currentField))
                ELSE rows
    /\ currentRow' = <<>>
    /\ currentField' = <<>>
    /\ scanIndex' = IF char = "\r" /\ nextChar = "\n" THEN scanIndex + 2
                    ELSE scanIndex + 1
    /\ UNCHANGED <<world, airtable, cdn, pc, clubs, ci, gi, clubResult, results,
                   ri, names, ni, searchResponse, searchData, attempts,
                   queries, patches, response, csvText, inQuotes, rowIndex,
                   slug>>

\* any other character goes to the field
ScanChar ==
    /\ IsParse /\ pc = "scan" /\ scanIndex < Len(csvText)
    /\ char # "\""
    /\ ~(char = "," /\ ~inQuotes)
    /\ ~(IsRowEnd(char) /\ ~inQuotes)
    /\ currentField' = Append(currentField, char)
    /\ scanIndex' = scanIndex + 1
    /\ UNCHANGED <<world, airtable, cdn, pc, clubs, ci, gi, clubResult, results,
                   ri, names, ni, searchResponse, searchData, attempts,
                   queries, patches, response, csvText, currentRow, inQuotes,
                   rows, rowIndex, slug>>

\* the last field and row, then: if (rows.length < 1) return []
ScanFlush ==
    /\ IsParse /\ pc = "scan" /\ scanIndex >= Len(csvText)
    /\ IF HasPending
       THEN /\ currentRow' = Append(currentRow, currentField)
            /\ rows' = IF KeepRow(Append(currentRow, currentField))
                        THEN Append(rows, Append(currentRow, currentField))
                        ELSE rows
       ELSE UNCHANGED <<currentRow, rows>>
    /\ pc' = IF Len(rows') < 1 THEN "parsed" ELSE "extract"
    /\ rowIndex' = 1
    /\ UNCHANGED <<world, airtable, cdn, clubs, ci, gi, clubResult, results,
                   ri, names, ni, searchResponse, searchData, attempts,
                   queries, patches, response, csvText, scanIndex,
                   currentField, inQuotes, slug>>

\* the text of an image reference as it stands in the uploaded file
RefText(u) ==
    LET UrlPrefix == <<"h","t","t","p",":","/","/">> IN
    CASE u = "" -> <<>>
      [] u = "http://a" -> UrlPrefix \o <<"a">>
      [] u = "http://b" -> UrlPrefix \o <<"b">>
      [] u = "http://c" -> UrlPrefix \o <<"c">>
      [] u = "http://down" -> UrlPrefix \o <<"d","o","w","n">>
      [] u = "http://corrupt" -> UrlPrefix \o <<"c","o","r","r","u","p","t">>
      [] u = "http://refused" -> UrlPrefix \o <<"r","e","f","u","s","e","d">>
      [] u = "http://silent" -> UrlPrefix \o <<"s","i","l","e","n","t">>
      [] u = Malformed -> <<"n","o","t"," ","a"," ","u","r","l">>

\* the reference a field holds: a well-formed URL of this world, none, or
\* a text that new URL() rejects
RefOf(t) ==
    IF t = <<>> THEN ""
    ELSE IF \E u \in ValidUrls : RefText(u) = t
         THEN CHOOSE u \in ValidUrls : RefText(u) = t
         ELSE Malformed

\* galleryImages.split(',')
RECURSIVE SplitOnComma(_)
SplitOnComma(t) ==
    IF \A k \in 1..Len(t) : t[k] # "," THEN <<t>>
    ELSE LET k == CHOOSE j \in 1..Len(t) :
                     t[j] = "," /\ \A h \in 1..(j - 1) : t[h] # ","
         IN  <<SubSeq(t, 1, k - 1)>> \o SplitOnComma(SubSeq(t, k + 1, Len(t)))

\* the split without .map(url => url.trim())
GalleryEntriesUntrimmed(t) ==
    IF NonBlank(t)
    THEN [k \in 1..Len(SplitOnComma(t)) |-> RefOf(SplitOnComma(t)[k])]
    ELSE <<>>

\* galleryImages && galleryImages.trim(): split(',').map(url => url.trim())
GalleryEntries(t) ==
    IF NonBlank(t)
    THEN [k \in 1..Len(SplitOnComma(t)) |-> RefOf(Trim(SplitOnComma(t)[k]))]
    ELSE <<>>

\* values[k]: undefined (falsy, as the empty text) past the end of the row
Column(values, k) == IF k < Len(values) THEN values[k + 1] ELSE <<>>

\* the columns the extraction reads of a data row
RowOf(values) ==
    [submissionId |-> Column(values, 0),
     clubName |-> Column(values, 10),
     heroImage |-> RefOf(Column(values, 27)),
     logoImage |-> RefOf(Column(values, 28)),
     galleryEntries |-> GalleryEntries(Column(values, 29))]

MinColumnsLoose == 30 - 1
MinColumns == 30

\* if (values.length < 30) continue
ExtractSkip ==
    /\ IsParse /\ pc = "extract" /\ rowIndex < Len(rows)
    /\ Len(rows[rowIndex + 1]) < MinColumns
    /\ rowIndex' = rowIndex + 1
    /\ UNCHANGED <<world, airtable, cdn, pc, clubs, ci, gi, clubResult, results,
                   ri, names, ni, searchResponse, searchData, attempts,
                   queries, patches, response, csvText, scanIndex, currentRow,
                   currentField, inQuotes, rows, slug>>

\* one data row: a club is pushed if the row holds an image reference
ExtractRow ==
    /\ IsParse /\ pc = "extract" /\ rowIndex < Len(rows)
    /\ ~(Len(rows[rowIndex + 1]) < MinColumns)
    /\ clubs' = IF HasImage(RowOf(rows[rowIndex + 1]))
                THEN Append(clubs, ExtractClub(RowOf(rows[rowIndex + 1])))
                ELSE clubs
    /\ rowIndex' = rowIndex + 1
    /\ UNCHANGED <<world, airtable, cdn, pc, ci, gi, clubResult, results,
                   ri, names, ni, searchResponse, searchData, attempts,
                   queries, patches, response, csvText, scanIndex, currentRow,
                   currentField, inQuotes, rows, slug>>

\* return clubs
ExtractReturn ==
    /\ IsParse /\ pc = "extract" /\ ~(rowIndex < Len(rows))
    /\ pc' = "parsed"
    /\ UNCHANGED <<world, airtable, cdn, clubs, ci, gi, clubResult, results,
                   ri, names, ni, searchResponse, searchData, attempts,
                   queries, patches, response, parser, slug>>

(***************************************************************************)
(* The uploaded files: short texts over the characters the scan tells      *)
(* apart, small tables written out as CSV, and exports of the sign-up form *)
(* (a header line and one line of 30 columns per submission).              *)
(***************************************************************************)
MaxText == 4
\* every short text over the characters the scan tells apart, and three
\* longer texts: blank lines at the start, in the middle and at the end;
\* a quote left open after complete rows; the three line endings mixed
RawTexts ==
    UNION {[1..k -> {"a", " ", ",", "\"", "\n", "\r"}] : k \in 0..MaxText}
    \cup
    { <<"\r", "\n", " ", "\n", "a", ",", "a", "\n", "\n", " ", "\t", "\r",
        "a", "\r", "\n", " ", "\n">>,
      <<"a", ",", "a", "\n", "a", ",", "\"", "a", ",", "\n", "a">>,
      <<"a", "\r", "\n", "a", "\r", "a", "\n", "\"", "a", "\r", "\n", "a",
        "\"", "\n", "\r", "a">> }

\* what a CSV writer does to a field: enclose in quotes, double the quotes
RECURSIVE DoubleQuotes(_)
DoubleQuotes(f) ==
    IF f = <<>> THEN <<>>
    ELSE (IF Head(f) = "\"" THEN <<"\"", "\"">> ELSE <<Head(f)>>)
         \o DoubleQuotes(Tail(f))
EncodeField(f, quoteAll) ==
    IF quoteAll \/ \E k \in 1..Len(f) : f[k] \in {",", "\"", "\n", "\r"}
    THEN <<"\"">> \o DoubleQuotes(f) \o <<"\"">>
    ELSE f

RECURSIVE Join(_, _)
Join(parts, sep) ==
    IF parts = <<>> THEN <<>>
    ELSE IF Len(parts) = 1 THEN parts[1]
    ELSE parts[1] \o sep \o Join(Tail(parts), sep)

EncodeCsv(table, eol, quoteAll, trailing) ==
    Join([k \in 1..Len(table) |->
            Join([f \in 1..Len(table[k]) |->
                    EncodeField(table[k][f], quoteAll)], <<",">>)], eol)
    \o (IF trailing THEN eol ELSE <<>>)

SmallRows ==
    { <<<<"a">>, <<"b", ",", "c">>, <<"d", "\"", "e">>>>,
      <<<<>>, <<" ">>>>,
      <<<<"x", "\n", "y">>, <<>>>>,
      <<<<"\r", "\n">>, <<"\"">>>>,
      <<<<"\n">>>>,
      <<<<"a">>, <<" ">>>>,
      <<<<" ", "a", " ">>, <<",">>>> }
MaxLines == 2

Form(id, clubName, hero, logo, gallery, columns) ==
    [submissionId |-> Str(id), clubName |-> Str(clubName), hero |-> hero,
     logo |-> logo, gallery |-> gallery, columns |-> columns]
Entry(pad, ref) == [pad |-> pad # "", ref |-> ref]

FormSet ==
    { Form("S1", "A b", "http://a", "", <<>>, 30),
      Form("", "ab", "http://a", "http://b", <<>>, 29),
      Form("", "!", "", Malformed,
           <<Entry(" ", "http://a"), Entry("", Malformed),
             Entry(" ", "http://b"), Entry("", ""), Entry("", "http://c")>>, 30),
      Form("", "A b", "", "", <<Entry("", Malformed)>>, 30),
      Form("S1", "", Malformed, "", <<>>, 30),
      Form(" ", "Zz", "http://down", "", <<Entry(" ", "")>>, 30) }

GalleryText(gallery) ==
    Join([k \in 1..Len(gallery) |->
            (IF gallery[k].pad THEN <<" ">> ELSE <<>>)
            \o RefText(gallery[k].ref)
            \o (IF gallery[k].pad THEN <<" ">> ELSE <<>>)], <<",">>)

FormColumns(f) ==
    SubSeq([k \in 1..30 |->
              CASE k = 1 -> f.submissionId
                [] k = 11 -> f.clubName
                [] k = 28 -> RefText(f.hero)
                [] k = 29 -> RefText(f.logo)
                [] k = 30 -> GalleryText(f.gallery)
                [] OTHER -> <<>>], 1, f.columns)

\* the table an upload was written from
TableOf(upload) ==
    IF upload.kind = "form"
    THEN <<[k \in 1..30 |-> <<"h">>]>> \o [k \in 1..Len(upload.forms) |-> FormColumns(upload.forms[k])]
    ELSE upload.table

TextOf(upload) ==
    IF upload.kind = "text" THEN upload.text
    ELSE EncodeCsv(TableOf(upload), upload.eol, upload.quoteAll, upload.trailing)

\* no request is being served: a function is called on its own
NoRequest ==
    /\ envAirtable = {}
    /\ envCloudinary = FALSE
    /\ cdn = {}
    /\ ci = 1
    /\ gi = 0
    /\ clubResult = NoResult
    /\ results = <<>>
    /\ ri = 1
    /\ names = <<>>
    /\ ni = 1
    /\ searchResponse = Undefined
    /\ searchData = NoData
    /\ attempts = <<>>
    /\ queries = <<>>
    /\ patches = <<>>
    /\ response = NoResponse

\* record ids of the form's table, in the order select() pages them
RecordIds == <<"rec1", "rec2", "rec3", "rec4">>

\* const galleryUrls = galleryString ? split(',').map(trim).filter(Boolean) : []
\* and records.push({name, heroUrl, logoUrl, galleryUrls, airtableId})
readFromAirtable(base) ==
    LET ids == SelectSeq(RecordIds, LAMBDA r : r \in DOMAIN base)
        Field(k, f) == IF f \in DOMAIN base[ids[k]] THEN base[ids[k]][f] ELSE <<>>
        galleryString(k) == Field(k, "Upload up to 4 images for your photo gallery:")
    IN  [k \in 1..Len(ids) |->
           [name |-> Field(k, "What's the name of your club/community/group?"),
            heroUrl |-> Field(k, "Upload a hero image:"),
            logoUrl |-> Field(k, "Upload your community's logo:"),
            galleryUrls |->
               IF galleryString(k) # <<>>
               THEN SelectSeq([j \in 1..Len(SplitOnComma(galleryString(k))) |->
                                 Trim(SplitOnComma(galleryString(k))[j])],
                              LAMBDA url : url # <<>>)
               ELSE <<>>,
            airtableId |-> ids[k]]]

\* parseCSV is entered with the text of the upload; the table of the form
\* holds one record per submission of an export, with the same answers
ParseStart ==
    /\ entry = "parse"
    /\ airtable =
          IF input.kind = "form"
          THEN [r \in {RecordIds[k] : k \in 1..Len(input.forms)} |->
                  LET f == input.forms[CHOOSE k \in 1..Len(input.forms) :
                                          RecordIds[k] = r]
                  IN  [q \in {"What's the name of your club/community/group?",
                              "Upload a hero image:",
                              "Upload your community's logo:",
                              "Upload up to 4 images for your photo gallery:"} |->
                         CASE q = "What's the name of your club/community/group?"
                                -> f.clubName
                           [] q = "Upload a hero image:" -> RefText(f.hero)
                           [] q = "Upload your community's logo:" -> RefText(f.logo)
                           [] OTHER -> GalleryText(f.gallery)]]
          ELSE [r \in {} |-> NoFields]
    /\ csvText = TextOf(input)
    /\ scanIndex = 0
    /\ currentRow = <<>>
    /\ currentField = <<>>
    /\ inQuotes = FALSE
    /\ rows = <<>>
    /\ rowIndex = 1
    /\ slug = <<>>
    /\ pc = "scan"
    /\ clubs = <<>>
    /\ NoRequest

\* the upload is a text, a table written out, or an export of the form
ParseInit ==
    /\ \/ input \in {[kind |-> "text", text |-> t] : t \in RawTexts}
       \/ input \in {[kind |-> "table", table |-> t, eol |-> e, quoteAll |-> q,
                   trailing |-> tr] :
                     t \in SeqsUpTo(SmallRows, MaxLines),
                     e \in {<<"\n">>, <<"\r">>, <<"\r", "\n">>},
                     q \in BOOLEAN, tr \in BOOLEAN}
       \/ input \in {[kind |-> "form", forms |-> fs, eol |-> e, quoteAll |-> FALSE,
                   trailing |-> TRUE] :
                     fs \in SeqsUpTo(FormSet, MaxClubs),
                     e \in {<<"\n">>, <<"\r", "\n">>}}
    /\ ParseStart

\* readFromAirtable on the table of the form, once the export of the same
\* submissions has been parsed: res.json({success: true, records})
ReadFromAirtable ==
    /\ IsParse /\ pc = "parsed" /\ input.kind = "form"
    /\ response' = [status |-> 200, results |-> readFromAirtable(airtable)]
    /\ pc' = "read"
    /\ UNCHANGED <<world, airtable, cdn, clubs, ci, gi, clubResult, results,
                   ri, names, ni, searchResponse, searchData, attempts,
                   queries, patches, parser, slug>>

ParseNext ==
    \/ ScanEscapedQuote
    \/ ScanQuote
    \/ ScanComma
    \/ ScanRowEnd
    \/ ScanChar
    \/ ScanFlush
    \/ ExtractSkip
    \/ ExtractRow
    \/ ExtractReturn
    \/ ReadFromAirtable

ParseSpec == ParseInit /\ [][ParseNext]_vars

(***************************************************************************)
(* The slug functions on their own: cleanClubName of the servers and the   *)
(* slug of processImage, applied to a name and then to their own result.   *)
(***************************************************************************)
MaxName == 3
LongPrefix == [k \in 1..49 |-> "a"]
\* short names, and names around the limit of 50 characters
NameSet ==
    LET short == UNION {[1..k -> {"A", "b", " ", "-", "!", "1"}] :
                           k \in 0..MaxName}
    IN  short \cup {LongPrefix \o n : n \in short}

IsSlug == entry \in {"cleanClubName", "slug"}

\* the slug function under test
SlugOf(n) == IF entry = "cleanClubName" THEN cleanClubName(n) ELSE apiSlug(n)

InitSlug ==
    /\ entry \in {"cleanClubName", "slug"}
    /\ input \in NameSet
    /\ pc = "start"
    /\ clubs = <<>>
    /\ ParserIdle
    /\ airtable = [r \in {} |-> NoFields]
    /\ NoRequest

\* the slug of the name
SlugName ==
    /\ IsSlug /\ pc = "start"
    /\ slug' = <<SlugOf(input)>>
    /\ pc' = "slugged"
    /\ UNCHANGED <<world, parser, airtable, cdn, clubs, ci, gi, clubResult,
                   results, ri, names, ni, searchResponse, searchData,
                   attempts, queries, patches, response>>

\* the slug of the slug
SlugAgain ==
    /\ IsSlug /\ pc = "slugged"
    /\ slug' = Append(slug, SlugOf(slug[1]))
    /\ pc' = "reslugged"
    /\ UNCHANGED <<world, parser, airtable, cdn, clubs, ci, gi, clubResult,
                   results, ri, names, ni, searchResponse, searchData,
                   attempts, queries, patches, response>>

SlugSpec == InitSlug /\ [][SlugName \/ SlugAgain]_vars

Init == InitUpload \/ InitWebhook \/ InitBatch

\* the steps of the upload handler and of updateAirtableRecord
UploadNext ==
    \/ ParseUpload
    \/ UploadHero
    \/ UploadLogo
    \/ UploadGallery
    \/ UploadPush
    \/ AirtableGate
    \/ ReconNext
    \/ SearchSubmissionId
    \/ SearchNames
    \/ SearchName
    \/ CheckSearch
    \/ PatchRecord
    \/ Respond

Next ==
    \/ UploadNext
    \/ HookStart
    \/ HookHero
    \/ HookLogo
    \/ HookGallery
    \/ HookGate
    \/ BatchStart
    \/ BatchHero
    \/ BatchLogo
    \/ BatchGallery
    \/ BatchComplete
    \/ BatchPush
    \/ BatchWrite
    \/ BatchWritten

Spec == Init /\ [][Next]_vars

(***************************************************************************)
(* The upload handler with sources that may never answer.  The event loop  *)
(* runs a continuation as soon as its promise settles: weak fairness of    *)
(* the handler's steps.                                                    *)
(***************************************************************************)
LiveInit ==
    /\ entry \in {"upload", "upload2"}
    /\ input \in SeqsUpTo({ Row("", "A b", "http://a", "http://silent", <<"http://b">>),
                            Row("", "ab", "http://down", "", <<"http://b">>),
                            Row("S1", "A b", "http://a", "", <<>>) },
                          MaxClubs)
    /\ Idle
    /\ envAirtable \in {{}, AirtableVars}

LiveSpec == LiveInit /\ [][UploadNext]_vars /\ WF_vars(UploadNext)


(***************************************************************************)
(* Properties.                                                             *)
(***************************************************************************)
IsPrefix(a, b) == Len(a) <= Len(b) /\ \A k \in 1..Len(a) : a[k] = b[k]

\* the result object of club c: pushed already, or still under construction
ResultOf(c) == IF c <= Len(results) THEN results[c] ELSE clubResult

\* a transform of this source fails in this world
Fails(url) == ~envCloudinary \/ url \in Unreachable \cup Corrupt \cup Refused

SlotPhase == {"start", "hero", "logo", "gallery"}

\* the slots of an extracted club that carry a reference, in the fixed order
UploadPlan(club) ==
    (IF club.heroImage # NULL THEN <<"hero">> ELSE <<>>)
    \o (IF club.logoImage # NULL THEN <<"logo">> ELSE <<>>)
    \o [k \in 1..Min(Len(club.galleryImages), 4) |-> galleryTypeOf(k)]

UploadUrl(club, t) ==
    CASE t = "hero" -> club.heroImage
      [] t = "logo" -> club.logoImage
      [] OTHER -> club.galleryImages[CHOOSE k \in 1..5 : galleryTypeOf(k) = t]

LabelOf(t) ==
    CASE t = "hero" -> "Hero image"
      [] t = "logo" -> "Logo image"
      [] OTHER -> galleryLabelOf(CHOOSE k \in 1..5 : galleryTypeOf(k) = t)

\* C1: in the CSV-upload orchestrator every failed transform is recorded as
\* an error of its club; once the slot loop is over every populated slot of
\* every club has been attempted, whatever failed before it; and the run
\* answers 200 with one result per club.
C1_FailureIsolation ==
    IsUpload =>
      /\ \A k \in 1..Len(attempts) :
            Fails(UploadUrl(clubs[attempts[k][1]], attempts[k][2])) =>
               \E e \in Range(ResultOf(attempts[k][1]).errors) :
                   e[1] = LabelOf(attempts[k][2])
      /\ (pc \notin SlotPhase /\ clubs # <<>>) =>
            \A c \in 1..Len(clubs) :
               \A t \in Range(UploadPlan(clubs[c])) : <<c, t>> \in Range(attempts)
      /\ (pc = "done" /\ clubs # <<>>) =>
            response.status = 200 /\ Len(response.results) = Len(clubs)

\* a finished upload run in which a transform failed, a later slot of the
\* same club was attempted, and a later club was attempted too
C1_Witness ==
    /\ IsUpload /\ pc = "done"
    /\ \E k \in 1..Len(attempts) :
          /\ Fails(UploadUrl(clubs[attempts[k][1]], attempts[k][2]))
          /\ \E j \in (k+1)..Len(attempts) : attempts[j][1] = attempts[k][1]
          /\ \E j \in (k+1)..Len(attempts) : attempts[j][1] > attempts[k][1]


TypesOf(processed) == [k \in 1..Len(processed) |-> processed[k].type]
LabelsOf(errors) == [k \in 1..Len(errors) |-> errors[k][1]]

Succeeded(club) ==
    SelectSeq(UploadPlan(club), LAMBDA t : ~Fails(UploadUrl(club, t)))
FailedLabels(club) ==
    LET failed == SelectSeq(UploadPlan(club), LAMBDA t : Fails(UploadUrl(club, t)))
    IN  [k \in 1..Len(failed) |-> LabelOf(failed[k])]

\* C2 as stated: when an upload run has finished, each result holds in
\* `processed` exactly the slots that succeeded and in `errors` exactly one
\* entry per failed slot, whatever the reconciliation outcome.
C2_Original ==
    (IsUpload /\ pc = "done" /\ response.status = 200) =>
       \A c \in 1..Len(clubs) :
          /\ TypesOf(response.results[c].processed) = Succeeded(clubs[c])
          /\ LabelsOf(response.results[c].errors) = FailedLabels(clubs[c])

\* C2 amended: `processed` holds exactly the slots that succeeded, and
\* `errors` holds one entry per failed slot, in slot order, followed by one
\* "Airtable update failed" entry exactly when the reconciliation of that
\* club was attempted and threw.
C2_SlotsAndErrors ==
    (IsUpload /\ pc = "done" /\ response.status = 200) =>
       \A c \in 1..Len(clubs) :
          LET r == response.results[c]
          IN  /\ TypesOf(r.processed) = Succeeded(clubs[c])
              /\ LabelsOf(r.errors) =
                   FailedLabels(clubs[c]) \o
                   (IF AirtableConfigured /\ r.processed # <<>>
                       /\ ~r.airtableUpdate.success
                    THEN <<"Airtable update failed">> ELSE <<>>)

\* a finished run with a club whose hero failed and whose logo succeeded,
\* and whose reconciliation threw: one asset, two error entries
C2_Witness ==
    /\ IsUpload /\ pc = "done"
    /\ \E c \in 1..Len(results) :
          /\ TypesOf(results[c].processed) = <<"logo">>
          /\ LabelsOf(results[c].errors) = <<"Hero image", "Airtable update failed">>

\* the slots a webhook body carries a well-formed reference for, in order
HookPlan(body) ==
    LET urls == HookGalleryUrls(body)
    IN  (IF body.heroImageUrl \in ValidUrls THEN <<"hero">> ELSE <<>>)
        \o (IF body.logoImageUrl \in ValidUrls THEN <<"logo">> ELSE <<>>)
        \o [j \in 1..Cardinality({k \in 1..Min(Len(urls), 4) : urls[k] \in ValidUrls}) |->
              galleryTypeOf(CHOOSE k \in 1..4 :
                 /\ k <= Len(urls) /\ urls[k] \in ValidUrls
                 /\ Cardinality({m \in 1..k : urls[m] \in ValidUrls}) = j)]

\* the requests processBatch plans for a club: <<type, index>>
BatchPlan(club) ==
    (IF club.heroUrl # "" THEN <<<<"hero", 0>>>> ELSE <<>>)
    \o (IF club.logoUrl # "" THEN <<<<"logo", 0>>>> ELSE <<>>)
    \o [k \in 1..Min(Len(club.galleryUrls), 4) |-> <<"gallery", k - 1>>]

PlanOf(c) ==
    CASE IsUpload -> [k \in 1..Len(UploadPlan(clubs[c])) |-> <<UploadPlan(clubs[c])[k]>>]
      [] IsWebhook -> [k \in 1..Len(HookPlan(input)) |-> <<HookPlan(input)[k]>>]
      [] OTHER -> BatchPlan(clubs[c])

\* what was attempted for club c, in order, without the club index
AttemptsOf(c) ==
    LET mine == SelectSeq(attempts, LAMBDA a : a[1] = c)
    IN  [k \in 1..Len(mine) |-> Tail(mine[k])]

\* the clubs of an accepted request
NumClubs == IF IsWebhook THEN (IF response.status = 400 THEN 0 ELSE 1)
            ELSE Len(clubs)

\* C3: in every entry point the transforms of a club are attempted in the
\* order hero, logo, gallery 1..4 over the populated slots, never more than
\* four gallery transforms, and clubs are taken in input order; when the
\* slot loop of the upload or webhook orchestrator is over, exactly the
\* populated slots have been attempted.
C3_SlotOrder ==
    /\ \A k \in 1..(Len(attempts) - 1) : attempts[k][1] <= attempts[k+1][1]
    /\ \A k \in 1..Len(attempts) : attempts[k][1] \in 1..NumClubs
    /\ \A c \in 1..NumClubs :
          /\ IsPrefix(AttemptsOf(c), PlanOf(c))
          /\ ((IsUpload \/ IsWebhook) /\ pc \notin SlotPhase)
                => AttemptsOf(c) = PlanOf(c)

\* a club carrying five gallery references for which gallery 1..4, and
\* nothing else, has been attempted when the run is over
C3_Witness ==
    /\ IsUpload /\ pc = "done"
    /\ \E c \in 1..Len(clubs) :
          /\ Len(clubs[c].galleryImages) = 5
          /\ AttemptsOf(c) = <<<<"gallery-1">>, <<"gallery-2">>,
                               <<"gallery-3">>, <<"gallery-4">>>>


QueriesOf(c) == SelectSeq(queries, LAMBDA q : q.club = c)
PatchesOf(c) == SelectSeq(patches, LAMBDA q : q.club = c)

\* C4: for a club none of whose transforms succeeded no search and no
\* update request is ever issued and its reconciliation outcome stays null;
\* the club is still in the answer, with one error per attempted slot.
C4_NoAssetsNoReconcile ==
    (IsUpload \/ IsWebhook) =>
       \A c \in 1..Len(results) :
          results[c].processed = <<>> =>
             /\ QueriesOf(c) = <<>>
             /\ PatchesOf(c) = <<>>
             /\ results[c].airtableUpdate = NoUpdate
             /\ (pc = "done" /\ response.status = 200) =>
                   /\ c <= Len(response.results)
                   /\ response.results[c].processed = <<>>
                   /\ Len(response.results[c].errors) = Len(AttemptsOf(c))
                   /\ \A k \in 1..Len(AttemptsOf(c)) :
                         response.results[c].errors[k][1] = LabelOf(AttemptsOf(c)[k][1])

\* a finished run with Airtable configured in which every transform of a
\* club failed: the club is answered with its two errors and was not searched
C4_Witness ==
    /\ (IsUpload \/ IsWebhook) /\ pc = "done" /\ response.status = 200
    /\ envAirtable = AirtableVars
    /\ \E c \in 1..Len(response.results) :
          /\ response.results[c].processed = <<>>
          /\ Len(response.results[c].errors) = 2
          /\ QueriesOf(c) = <<>>

\* C5: while one of the three AIRTABLE_* variables is missing, no search and
\* no update request is issued, every reconciliation outcome stays null, no
\* reconciliation error is recorded, and an accepted run answers 200 with
\* all its results.
C5_NotConfiguredSkips ==
    ((IsUpload \/ IsWebhook) /\ envAirtable # AirtableVars) =>
       /\ queries = <<>>
       /\ patches = <<>>
       /\ \A c \in 1..Len(results) :
             /\ results[c].airtableUpdate = NoUpdate
             /\ "Airtable update failed" \notin Range(LabelsOf(results[c].errors))
       /\ (pc = "done" /\ NumClubs > 0) =>
             /\ response.status = 200
             /\ Len(response.results) = NumClubs
             /\ response.results = results

\* a finished run with two of the three variables set and a published asset
C5_Witness ==
    /\ (IsUpload \/ IsWebhook) /\ pc = "done" /\ response.status = 200
    /\ Cardinality(envAirtable) = 2
    /\ \E c \in 1..Len(response.results) : response.results[c].processed # <<>>


Rank(kind) == CASE kind = "id" -> 1 [] kind = "name" -> 2 [] OTHER -> 3
HasKind(qs, kind) == \E k \in 1..Len(qs) : qs[k].kind = kind
HitOn(qs, kind) == \E k \in 1..Len(qs) : qs[k].kind = kind /\ qs[k].found
SearchOver == {"s3", "patch"}

\* C6 as stated: the searches of a club go identifier (if non-blank), display
\* name, slug; a search that returns a record is the last one; and the slug
\* query is issued whenever the identifier and display-name steps yielded no
\* record.
C6_Original ==
    pc \in SearchOver =>
       LET qs == QueriesOf(ri)
       IN  /\ \A j, k \in 1..Len(qs) : j < k => Rank(qs[j].kind) < Rank(qs[k].kind)
           /\ HasKind(qs, "id") <=> NonBlank(results[ri].submissionId)
           /\ \A k \in 1..Len(qs) : qs[k].found => k = Len(qs)
           /\ (~HitOn(qs, "id") /\ ~HitOn(qs, "name")) => HasKind(qs, "slug")

\* C6 amended: as stated, except that the display-name query is issued only
\* for a non-blank display name and the slug query only for a non-blank
\* display name and a non-blank slug; under those conditions each is issued
\* exactly when the earlier steps yielded no record.
C6_FallbackChain ==
    pc \in SearchOver =>
       LET qs == QueriesOf(ri)
           r == results[ri]
       IN  /\ \A j, k \in 1..Len(qs) : j < k => Rank(qs[j].kind) < Rank(qs[k].kind)
           /\ HasKind(qs, "id") <=> NonBlank(r.submissionId)
           /\ \A k \in 1..Len(qs) : qs[k].found => k = Len(qs)
           /\ HasKind(qs, "name") <=> (~HitOn(qs, "id") /\ NonBlank(r.name))
           /\ HasKind(qs, "slug") <=>
                 (~HitOn(qs, "id") /\ ~HitOn(qs, "name")
                  /\ NonBlank(r.name) /\ NonBlank(r.cleanName))

\* the searches of a club are over: identifier, display name and slug were
\* queried in that order and none returned a record
C6_Witness ==
    /\ pc = "s3"
    /\ LET qs == QueriesOf(ri)
       IN  /\ Len(qs) = 3
           /\ qs[1].kind = "id" /\ qs[2].kind = "name" /\ qs[3].kind = "slug"
           /\ \A k \in 1..3 : ~qs[k].found

\* C7: for a club whose submission id is empty or only whitespace no
\* identifier query is ever issued, and each slug query for it comes after a
\* display-name query for it.
C7_BlankIdSkipsIdSearch ==
    \A k \in 1..Len(queries) :
       ~NonBlank(results[queries[k].club].submissionId) =>
          /\ queries[k].kind # "id"
          /\ queries[k].kind = "slug" =>
                \E j \in 1..(k-1) : /\ queries[j].club = queries[k].club
                                    /\ queries[j].kind = "name"

\* a club with a blank submission id for which the display name and then the
\* slug were queried
C7_Witness ==
    \E k \in 2..Len(queries) :
       /\ ~NonBlank(results[queries[k].club].submissionId)
       /\ queries[k].kind = "slug"
       /\ queries[k-1].kind = "name" /\ queries[k-1].club = queries[k].club
       /\ QueriesOf(queries[k].club)[1].kind = "name"

NoMatchEntry == <<"Airtable update failed", "No matching Airtable record found">>

\* every search issued for club c was answered 2xx with no record
AllSearchesEmpty(c) ==
    /\ QueriesOf(c) # <<>>
    /\ \A k \in 1..Len(QueriesOf(c)) :
          QueriesOf(c)[k].reply = "ok" /\ ~QueriesOf(c)[k].found

\* C8: when every search of a club returned no record, the step that follows
\* records the no-match error on that club's result and changes nothing else
\* of it (assets, published URLs, null reconciliation outcome), sends no
\* update request, and moves on to the next result; a club with that error
\* never gets an update request, and at the end of a configured run every
\* club with assets was reconciled or carries a reconciliation error.
C8_NoMatchIsolated ==
    /\ [][(pc = "s3" /\ AllSearchesEmpty(ri)) =>
            /\ results' = [results EXCEPT ![ri].errors = Append(@, NoMatchEntry)]
            /\ patches' = patches
            /\ airtable' = airtable
            /\ cdn' = cdn
            /\ ri' = ri + 1
            /\ pc' = "recon"]_vars
    /\ [](\A c \in 1..Len(results) :
            (IsUpload \/ IsWebhook) =>
              /\ NoMatchEntry \in Range(results[c].errors) =>
                    /\ PatchesOf(c) = <<>>
                    /\ results[c].airtableUpdate = NoUpdate
              /\ (pc = "done" /\ envAirtable = AirtableVars
                  /\ results[c].processed # <<>>) =>
                    \/ results[c].airtableUpdate # NoUpdate
                    \/ "Airtable update failed" \in Range(LabelsOf(results[c].errors)))

\* a finished run in which the first club found no record and kept its
\* assets, and the second club was then matched and updated
C8_Witness ==
    /\ IsUpload /\ pc = "done" /\ Len(results) = 2
    /\ NoMatchEntry \in Range(results[1].errors)
    /\ results[1].processed # <<>>
    /\ results[2].airtableUpdate # NoUpdate


\* the fields of the update payload that belong to one slot
FieldsOfSlot(t) ==
    CASE t = "hero" -> {"Hero URL", "Hero Alt Text"}
      [] t = "logo" -> {"Logo URL", "Logo Alt Text"}
      [] t = "gallery-1" -> {"Gallery 1 Alt Text"}
      [] t = "gallery-2" -> {"Gallery 2 Alt Text"}
      [] t = "gallery-3" -> {"Gallery 3 Alt Text"}
      [] OTHER -> {"Gallery 4 Alt Text"}

AllSlots == {"hero", "logo", "gallery-1", "gallery-2", "gallery-3", "gallery-4"}

\* the URLs listed by the gallery aggregate of a payload, if it has one
AggregateUrls(fields) ==
    IF "Gallery URLs (JSON)" \in DOMAIN fields
    THEN Range(fields["Gallery URLs (JSON)"])
    ELSE IF "Photo Gallery Url" \in DOMAIN fields
    THEN {e.url : e \in Range(fields["Photo Gallery Url"])}
    ELSE {}

GalleryAssetUrls(processed) ==
    {processed[k].cloudinaryUrl :
        k \in {j \in 1..Len(processed) : processed[j].type \notin {"hero", "logo"}}}

C10_MarkerAlwaysSet ==
    (IsUpload \/ IsWebhook) =>
       \A k \in 1..Len(patches) :
          {"Status", "Last Modified"} \subseteq DOMAIN patches[k].fields


\* C11: a club gets at most one update request; a request of
\* updateAirtableRecord is addressed to a record returned by the club's last
\* search, which answered with at least one record; and a step that sends an
\* update request changes nothing in the base but the fields of the payload,
\* on the addressed record: every other field and every other record is kept.
C11_SinglePartialPatch ==
    /\ [](/\ \A c \in 1..Len(results) : Len(PatchesOf(c)) <= 1
          /\ ~IsBatch =>
                \A k \in 1..Len(patches) :
                   LET qs == QueriesOf(patches[k].club)
                   IN  /\ qs # <<>>
                       /\ qs[Len(qs)].found
                       /\ patches[k].recordId \in
                             Matching(qs[Len(qs)].field, qs[Len(qs)].value))
    /\ [][/\ airtable' # airtable => Len(patches') = Len(patches) + 1
          /\ Len(patches') = Len(patches) + 1 =>
                LET p == patches'[Len(patches')]
                IN  /\ DOMAIN airtable' = DOMAIN airtable
                    /\ \A r \in DOMAIN airtable :
                          /\ r # p.recordId => airtable'[r] = airtable[r]
                          /\ \A f \in DOMAIN airtable[r] \ DOMAIN p.fields :
                                /\ f \in DOMAIN airtable'[r]
                                /\ airtable'[r][f] = airtable[r][f]]_vars

\* the update of a club has been applied to a record that had a field the
\* payload does not name, and that field is still there next to the new ones
C11_Witness ==
    /\ ~IsBatch
    /\ \E k \in 1..Len(patches) :
          /\ patches[k].recordId = "rec1"
          /\ "Notes" \notin DOMAIN patches[k].fields
          /\ "Notes" \in DOMAIN airtable["rec1"]
          /\ airtable["rec1"]["Notes"] = Str("ab")
          /\ DOMAIN patches[k].fields \subseteq DOMAIN airtable["rec1"]
          /\ results[patches[k].club].airtableUpdate.success


\* the result object r describes the extracted club
Describes(r, club) ==
    /\ r.name = club.originalName
    /\ r.cleanName = club.name
    /\ r.submissionId = club.submissionId

\* C12: an upload whose extraction gave at least one club is never answered
\* with an error status; the results pushed so far describe the first clubs
\* in input order; and the answer is 200 with exactly one result per club, in
\* input order, whatever failed in the transforms or in the reconciliation.
C12_OneResultPerClub ==
    (IsUpload /\ clubs # <<>>) =>
       /\ response.status \in {0, 200}
       /\ Len(results) <= Len(clubs)
       /\ \A k \in 1..Len(results) : Describes(results[k], clubs[k])
       /\ pc = "done" =>
             /\ response.status = 200
             /\ Len(response.results) = Len(clubs)
             /\ \A k \in 1..Len(clubs) : Describes(response.results[k], clubs[k])

\* a finished upload of two different clubs: the first lost a slot and its
\* reconciliation failed, the second has no asset at all
C12_Witness ==
    /\ IsUpload /\ pc = "done" /\ Len(clubs) = 2
    /\ clubs[1].originalName # clubs[2].originalName
    /\ response.results[1].processed # <<>>
    /\ Len(response.results[1].errors) >= 2
    /\ ~response.results[1].airtableUpdate.success
    /\ response.results[2].processed = <<>>
    /\ response.results[2].errors # <<>>


\* the scan of parseCSV is over
Scanned == IsParse /\ pc \in {"extract", "parsed"}

\* the rows of a table that have a field with something else than whitespace
WithContent(table) ==
    SelectSeq(table, LAMBDA row : \E k \in 1..Len(row) :
                 \E j \in 1..Len(row[k]) : row[k][j] \notin {" ", "\t", "\n", "\r"})

\* C13: when the upload is a table written out as CSV (fields enclosed in
\* quotes where needed or always, quotes doubled), the scan gives back the
\* rows of the table that are not blank, field for field: commas, quotes and
\* line breaks inside fields are restored and the enclosing quotes are gone.
C13_QuotedRoundTrip ==
    (Scanned /\ input.kind \in {"table", "form"}) =>
       rows = WithContent(TableOf(input))

\* the text a,"b,c","d""e" has been scanned into the row [a, b,c, d"e]
C13_Witness ==
    /\ Scanned /\ input.kind = "table"
    /\ csvText = <<"a", ",", "\"", "b", ",", "c", "\"", ",",
                   "\"", "d", "\"", "\"", "e", "\"">>
    /\ rows = <<<<<<"a">>, <<"b", ",", "c">>, <<"d", "\"", "e">>>>>>

\* C14: at every point of the scan of every text, each row collected so far
\* has a field that is not blank after trimming.
C14_NoBlankRows ==
    IsParse =>
       \A k \in 1..Len(rows) :
          \E f \in 1..Len(rows[k]) :
             \E j \in 1..Len(rows[k][f]) :
                rows[k][f][j] \notin {" ", "\t", "\n", "\r"}

\* a text with empty and whitespace-only lines at its start, in its middle
\* and at its end has been scanned into its two lines with content
C14_Witness ==
    /\ Scanned /\ input.kind = "text"
    /\ Len(csvText) = 17
    /\ SubSeq(csvText, 1, 4) = <<"\r", "\n", " ", "\n">>
    /\ SubSeq(csvText, 16, 17) = <<" ", "\n">>
    /\ rows = <<<<<<"a">>, <<"a">>>>, <<<<"a">>>>>>


\* the scan stands on a \n or \r, outside or inside quotes
AtLineBreak == IsParse /\ pc = "scan" /\ scanIndex < Len(csvText)
               /\ csvText[scanIndex + 1] \in {"\n", "\r"}
AtCrLf == /\ csvText[scanIndex + 1] = "\r"
          /\ scanIndex + 2 <= Len(csvText)
          /\ csvText[scanIndex + 2] = "\n"

\* the lines of a table, joined by the line ending e with nothing quoted
PlainText(table, e) == Join([k \in 1..Len(table) |-> Join(table[k], <<",">>)], e)
IsPlain(table) ==
    \A k \in 1..Len(table) : \A f \in 1..Len(table[k]) :
       \A j \in 1..Len(table[k][f]) : table[k][f][j] \notin {",", "\"", "\n", "\r"}

\* C15: a step of the scan on \n or \r outside quotes ends the field and the
\* row (the row is appended or, if blank, dropped) and moves past the
\* character, past both for \r\n; inside quotes the character is appended to
\* the field and no row ends; and a table without quoted fields gives the
\* same rows whether its lines are joined by \n, \r or \r\n.
C15_LineEndings ==
    /\ [][(AtLineBreak /\ ~inQuotes) =>
             /\ currentRow' = <<>> /\ currentField' = <<>>
             /\ rows' \in {rows, Append(rows, Append(currentRow, currentField))}
             /\ scanIndex' = IF AtCrLf THEN scanIndex + 2 ELSE scanIndex + 1]_vars
    /\ [][(AtLineBreak /\ inQuotes) =>
             /\ currentField' = Append(currentField, csvText[scanIndex + 1])
             /\ currentRow' = currentRow /\ rows' = rows
             /\ inQuotes' /\ scanIndex' = scanIndex + 1]_vars
    /\ []((Scanned /\ input.kind = "table" /\ IsPlain(input.table)
           /\ \E e \in {<<"\n">>, <<"\r">>, <<"\r", "\n">>} :
                 csvText = PlainText(input.table, e))
             => rows = WithContent(input.table))

\* two lines joined by \r\n have been scanned into two rows, and two lines
\* one of whose fields holds \r\n in quotes into two rows with that field
C15_Witness ==
    /\ Scanned /\ input.kind = "table" /\ Len(input.table) = 2
    /\ input.eol = <<"\r", "\n">>
    /\ input.table[2] = <<<<"\r", "\n">>, <<"\"">>>>
    /\ rows = input.table

\* C16: when the text ends inside a quoted field, the end of the scan raises
\* nothing: what was accumulated becomes the last field of the current row,
\* which is appended to the rows unless all its fields are blank.
C16_UnterminatedQuoteFlushed ==
    [][(IsParse /\ pc = "scan" /\ scanIndex >= Len(csvText) /\ inQuotes) =>
          /\ pc' \in {"extract", "parsed"}
          /\ rows' = IF \E k \in 1..Len(Append(currentRow, currentField)) :
                          \E j \in 1..Len(Append(currentRow, currentField)[k]) :
                             Append(currentRow, currentField)[k][j]
                                \notin {" ", "\t", "\n", "\r"}
                     THEN Append(rows, Append(currentRow, currentField))
                     ELSE rows]_vars

\* the text  a,a \n a,"a, \n a  ends in an open quote: its last row ends
\* with the field  a,\na
C16_Witness ==
    /\ Scanned /\ inQuotes
    /\ Len(rows) = 2
    /\ rows[2] = <<<<"a">>, <<"a", ",", "\n", "a">>>>


\* the data rows of the scan (the header left out) that have 30 columns
FullRows == IF rows = <<>> THEN <<>>
            ELSE SelectSeq(Tail(rows), LAMBDA values : Len(values) >= 30)

\* C17: when parseCSV returns, the clubs are those of the data rows with at
\* least 30 columns, in order: a shorter row gives no club, stops nothing,
\* and the rows after it are extracted.
C17_ShortRowsSkipped ==
    (IsParse /\ pc = "parsed") =>
       clubs = ExtractClubs([k \in 1..Len(FullRows) |-> RowOf(FullRows[k])])

\* a returned parse whose first data row has 29 columns and gave no club and
\* whose second data row gave one
C17_Witness ==
    /\ IsParse /\ pc = "parsed"
    /\ Len(rows) = 3
    /\ Len(rows[2]) = 29 /\ rows[2][28] # <<>>
    /\ Len(rows[3]) = 30
    /\ Len(clubs) = 1
    /\ clubs[1].submissionId = rows[3][1]
    /\ clubs[1].heroImage = "http://a"

\* C18: every club returned by parseCSV has a hero reference, a logo
\* reference or at least one gallery reference.
C18_EveryClubHasReference ==
    IsParse =>
       \A k \in 1..Len(clubs) :
          \/ clubs[k].heroImage # NULL
          \/ clubs[k].logoImage # NULL
          \/ clubs[k].galleryImages # <<>>

\* the forms that give a club: 30 columns and a valid hero, a valid logo or
\* a gallery field that is not blank
GivesClub(f) ==
    /\ f.columns >= 30
    /\ \/ f.hero \in ValidUrls
       \/ f.logo \in ValidUrls
       \/ Len(f.gallery) > 1
       \/ \E k \in 1..Len(f.gallery) : f.gallery[k].ref # ""

\* the valid references among the entries of a form's gallery, in order
ValidRefs(gallery) ==
    LET valid == SelectSeq(gallery, LAMBDA e : e.ref \in ValidUrls)
    IN  [k \in 1..Len(valid) |-> valid[k].ref]

\* C19: the gallery list of each club returned for a form export is the list
\* of the valid references among the comma-separated entries of the form's
\* gallery field, in their order, whatever surrounds them: padding is
\* trimmed, empty and malformed entries are dropped, the others are kept.
C19_GalleryValidEntries ==
    (IsParse /\ pc = "parsed" /\ input.kind = "form") =>
       LET fs == SelectSeq(input.forms, GivesClub)
       IN  /\ Len(clubs) = Len(fs)
           /\ \A k \in 1..Len(clubs) :
                 clubs[k].galleryImages = ValidRefs(fs[k].gallery)

\* a club whose gallery field held five entries, two padded, one malformed
\* and one empty, has the three valid ones in order
C19_Witness ==
    /\ IsParse /\ pc = "parsed" /\ input.kind = "form"
    /\ \E k \in 1..Len(clubs) :
          /\ clubs[k].galleryImages = <<"http://a", "http://b", "http://c">>
          /\ clubs[k].logoImage = NULL


\* C20: the slug of a slug is that slug, and every slug is at most 50
\* characters long and holds no whitespace and no upper-case letter; for
\* cleanClubName and for the slug of processImage.
C20_SlugIdempotent ==
    IsSlug =>
       /\ \A k \in 1..Len(slug) :
             /\ Len(slug[k]) <= 50
             /\ \A j \in 1..Len(slug[k]) :
                   /\ slug[k][j] \notin {" ", "\t", "\n", "\r"}
                   /\ slug[k][j] \notin Range(Uppers)
       /\ Len(slug) = 2 => slug[2] = slug[1]

\* a name of 52 characters with an upper-case letter, a special character
\* and a space has been slugged twice by cleanClubName: 50 characters, cut
\* inside the name
C20_Witness ==
    /\ entry = "cleanClubName" /\ pc = "reslugged"
    /\ input = LongPrefix \o <<"A", "!", " ">>
    /\ slug[1] = LongPrefix \o <<"a">>
    /\ slug[2] = slug[1]


\* the assets a result lists, in the servers' shape and in processBatch's
AssetsIn(r) ==
    IF "processed" \in DOMAIN r THEN Range(r.processed)
    ELSE IF "processedImages" \in DOMAIN r
    THEN Range(r.processedImages.hero) \cup Range(r.processedImages.logo)
         \cup Range(r.processedImages.gallery)
    ELSE {}

\* every asset listed so far, in a finished result or in the one being built
ListedAssets ==
    AssetsIn(clubResult) \cup UNION {AssetsIn(results[k]) : k \in 1..Len(results)}

\* the maximum width of a slot: hero 1600, logo 400, gallery 1200
SlotMaximum(type) ==
    CASE type = "hero" -> 1600
      [] type = "logo" -> 400
      [] OTHER -> 1200

\* C21: the transform never upscales: every asset a result lists, in the
\* upload, webhook and batch entry points, is at most as wide as its source
\* image and at most as wide as the maximum of its slot.
C21_NeverUpscales ==
    \A a \in ListedAssets :
       /\ a.width <= SourceWidth(a.originalUrl)
       /\ a.width <= SlotMaximum(a.type)

\* a 200 pixel source processed as a hero (maximum 1600) is listed 200 wide,
\* next to a 2000 pixel source cut down to the maximum of its slot
C21_Witness ==
    /\ \E a \in ListedAssets :
          /\ a.type = "hero" /\ SourceWidth(a.originalUrl) = 200
          /\ a.width = 200
    /\ \E a \in ListedAssets :
          /\ SourceWidth(a.originalUrl) = 2000
          /\ a.width = SlotMaximum(a.type)


\* the normalized slug under which the assets of club c are stored
SlugFor(c) ==
    CASE IsUpload -> clubs[c].name
      [] IsWebhook -> cleanClubName(input.clubName)
      [] OTHER -> apiSlug(clubs[c].name)

\* the key of a slug and a slot: <slug>-<type> in the servers,
\* <slug>-<type>[-<index>] in processImage
KeyFor(slugText, slot) ==
    slugText \o <<"-">> \o Str(slot[1])
    \o (IF Len(slot) = 2 /\ slot[2] # 0
        THEN <<"-", IndexDigits[slot[2]]>> ELSE <<>>)

KeyOfAttempt(a) == KeyFor(SlugFor(a[1]), Tail(a))

\* C22: the storage key is a function of the normalized slug and the slot
\* only: every key in the store is the key of the slug and slot of some
\* attempt, a transform adds no key but the one of its slug and slot, and a
\* transform of a slug and slot whose key is already stored leaves the set
\* of keys unchanged.
C22_KeyBySlugAndSlot ==
    /\ [](cdn \subseteq {KeyOfAttempt(attempts[k]) : k \in 1..Len(attempts)})
    /\ [][attempts' # attempts =>
             LET key == KeyOfAttempt(attempts'[Len(attempts')])
             IN  /\ cdn \subseteq cdn'
                 /\ cdn' \subseteq cdn \cup {key}
                 /\ key \in cdn => cdn' = cdn]_vars

\* two clubs with the same slug had the same slot transformed from the same
\* reference, both published, and the store holds one key for them
C22_Witness ==
    /\ IsUpload /\ envCloudinary
    /\ \E j, k \in 1..Len(attempts) :
          /\ attempts[j][1] < attempts[k][1]
          /\ attempts[j][2] = attempts[k][2]
          /\ SlugFor(attempts[j][1]) = SlugFor(attempts[k][1])
          /\ UploadUrl(clubs[attempts[j][1]], attempts[j][2])
                = UploadUrl(clubs[attempts[k][1]], attempts[k][2])
          /\ ~Fails(UploadUrl(clubs[attempts[j][1]], attempts[j][2]))
          /\ cdn = {KeyOfAttempt(attempts[m]) :
                      m \in {n \in 1..Len(attempts) :
                                ~Fails(UploadUrl(clubs[attempts[n][1]], attempts[n][2]))}}
          /\ Cardinality(cdn) < Cardinality({n \in 1..Len(attempts) :
                                ~Fails(UploadUrl(clubs[attempts[n][1]], attempts[n][2]))})


\* the template of a slot
TemplateOf(type) ==
    CASE type = "hero" -> HeroSuffix
      [] type = "logo" -> LogoSuffix
      [] OTHER -> GallerySuffix

\* the assets listed for club c: in its pushed result, or in the result that
\* is being built for it
AssetsOf(c) ==
    IF c <= Len(results) THEN AssetsIn(results[c])
    ELSE IF c = ci THEN AssetsIn(clubResult) ELSE {}

\* the name a club was submitted with
SubmittedName(c) ==
    CASE IsUpload -> clubs[c].originalName
      [] IsWebhook -> input.clubName
      [] OTHER -> clubs[c].name

\* C23 as stated: the alt text of every listed asset is the title-cased slug
\* of its club followed by the template of its slot.
C23_Original ==
    \A c \in 1..NumClubs : \A a \in AssetsOf(c) :
       a.altText = properClubName(SlugFor(c)) \o TemplateOf(a.type)

\* C23: the alt text of every listed asset is the template of its slot after
\* the name: the title-cased slug in the upload and webhook servers, the
\* name as submitted in processImage; so two assets of the same submitted
\* name and slot have the same alt text.
C23_AltTextByNameAndSlot ==
    /\ \A c \in 1..NumClubs : \A a \in AssetsOf(c) :
          a.altText = (IF IsBatch THEN clubs[c].name
                       ELSE properClubName(SlugFor(c))) \o TemplateOf(a.type)
    /\ \A c, d \in 1..NumClubs : \A a \in AssetsOf(c) : \A b \in AssetsOf(d) :
          (SubmittedName(c) = SubmittedName(d) /\ a.type = b.type)
             => a.altText = b.altText

\* two clubs submitted as 'A b' both list a logo asset, described as
\* 'A B logo'
C23_Witness ==
    /\ IsUpload /\ Len(results) = 2
    /\ SubmittedName(1) = Str("A b") /\ SubmittedName(2) = Str("A b")
    /\ \A c \in 1..2 : \E a \in AssetsOf(c) :
          /\ a.type = "logo"
          /\ a.altText = <<"A", " ", "B", " ", "l", "o", "g", "o">>


\* C24: a run of the upload handler eventually answers, with one result per
\* club, also when a source server never answers a download.
C24_RunReturns == <>(pc = "done" /\ response.status \in {200, 400})


\* C25: the records readFromAirtable returns for the submissions of a form
\* and the clubs parseCSV returns for the export of the same submissions
\* (every row of 30 columns) are the same entries: as many, and entry by
\* entry the same slug, the same validated hero and logo reference and the
\* same gallery list.
C25_SameExtraction ==
    (IsParse /\ pc = "read"
       /\ \A k \in 1..Len(input.forms) : input.forms[k].columns >= 30) =>
       LET records == response.results
       IN  /\ Len(records) = Len(clubs)
           /\ \A k \in 1..Len(clubs) :
                 /\ records[k].name = clubs[k].name
                 /\ records[k].heroUrl =
                       (IF clubs[k].heroImage = NULL THEN <<>>
                        ELSE RefText(clubs[k].heroImage))
                 /\ records[k].logoUrl =
                       (IF clubs[k].logoImage = NULL THEN <<>>
                        ELSE RefText(clubs[k].logoImage))
                 /\ records[k].galleryUrls =
                       [j \in 1..Len(clubs[k].galleryImages) |->
                          RefText(clubs[k].galleryImages[j])]


\* the reference processBatch sends for a slot <<type, index>> of a club
BatchUrl(club, slot) ==
    CASE slot[1] = "hero" -> club.heroUrl
      [] slot[1] = "logo" -> club.logoUrl
      [] OTHER -> club.galleryUrls[slot[2] + 1]

\* C26: in processBatch a club one of whose planned requests is answered
\* non-2xx has an error recorded in its result, and every pushed club has
\* had every populated slot requested, whatever failed before.
C26_BatchSlotContract ==
    IsBatch =>
       \A c \in 1..Len(results) :
          /\ (\E k \in 1..Len(AttemptsOf(c)) :
                 ~processImage(BatchUrl(clubs[c], AttemptsOf(c)[k]),
                               AttemptsOf(c)[k][1], clubs[c].name,
                               AttemptsOf(c)[k][2]).ok)
                => results[c].status = "error"
          /\ AttemptsOf(c) = BatchPlan(clubs[c])


\* updateAirtableRecord is running for results[ri]
InReconciler == pc \in {"s1", "s2", "s2loop", "s3", "patch"}

\* C27: in the upload and webhook servers the results are handed to
\* updateAirtableRecord one after the other and never again: it is entered
\* for a result only when every populated slot of that club has been
\* attempted and nothing was searched or written for it before, leaving it
\* moves on to the next result, and no transform is attempted once a
\* reconciliation has started or for a club whose result was pushed.
C27_ReconcileOnceAfterSlots ==
    [][(IsUpload \/ IsWebhook) =>
         /\ ri' \in {ri, ri + 1}
         /\ (~InReconciler /\ InReconciler') =>
               /\ pc = "recon" /\ pc' = "s1" /\ ri' = ri
               /\ AttemptsOf(ri) = PlanOf(ri)
               /\ QueriesOf(ri) = <<>> /\ PatchesOf(ri) = <<>>
         /\ (InReconciler /\ ~InReconciler') => ri' = ri + 1
         /\ attempts' # attempts =>
               /\ ~InReconciler /\ pc # "recon"
               /\ queries = <<>> /\ patches = <<>>
               /\ Len(results) < attempts'[Len(attempts')][1]]_vars

\* the second of two clubs is with updateAirtableRecord after the first was
\* searched for, each with its two populated slots attempted
C27_Witness ==
    /\ IsUpload /\ InReconciler /\ ri = 2
    /\ QueriesOf(1) # <<>>
    /\ Len(AttemptsOf(1)) = 2 /\ Len(AttemptsOf(2)) = 2


\* the published URLs of the gallery assets of a result, by slot number
PublishedGallery(processed) ==
    LET OfSlot(n) == SelectSeq(processed, LAMBDA a : a.type = galleryTypeOf(n))
        Url(n) == IF OfSlot(n) = <<>> THEN <<>> ELSE <<OfSlot(n)[1].cloudinaryUrl>>
    IN  Url(1) \o Url(2) \o Url(3) \o Url(4)

\* C28: an update request of updateAirtableRecord carries the aggregate
\* gallery field ('Gallery URLs (JSON)' in the upload server, 'Photo Gallery
\* Url' in the webhook server) exactly when a gallery slot of the club has an
\* asset, and the field lists the published URLs of the gallery assets, each
\* once, in slot order.
C28_GalleryAggregate ==
    ~IsBatch =>
       \A k \in 1..Len(patches) :
          LET fields == patches[k].fields
              gallery == PublishedGallery(results[patches[k].club].processed)
              field == IF entry = "upload" THEN "Gallery URLs (JSON)"
                       ELSE "Photo Gallery Url"
          IN  /\ field \in DOMAIN fields <=> gallery # <<>>
              /\ field \in DOMAIN fields =>
                    fields[field] = IF entry = "upload" THEN gallery
                                    ELSE [i \in 1..Len(gallery) |-> [url |-> gallery[i]]]

\* an update request for a club whose gallery slots 1 and 3 have an asset
\* and whose slots 2 and 4 failed: the aggregate lists the two URLs, slot 1
\* first
C28_Witness ==
    /\ entry = "upload"
    /\ \E k \in 1..Len(patches) :
          LET r == results[patches[k].club]
          IN  /\ TypesOf(r.processed) = <<"gallery-1", "gallery-3">>
              /\ Len(r.errors) >= 2
              /\ patches[k].fields["Gallery URLs (JSON)"]
                    = <<r.processed[1].cloudinaryUrl, r.processed[2].cloudinaryUrl>>


SearchFailedEntry == <<"Airtable update failed", "Airtable search failed">>

\* C29: for every club whose reconciliation is over, in the upload and
\* webhook servers: a rejected identifier search is followed by the name
\* search when the name is not blank, and a rejected name search by the slug
\* search when the slug is not blank; the search error is recorded exactly
\* when the last search issued for the club was rejected; and a club with
\* that error got no update request.
C29_RejectedSearchContinues ==
    (IsUpload \/ IsWebhook) =>
       \A c \in 1..Len(results) :
          LET qs == QueriesOf(c)
          IN  c < ri =>
                /\ \A k \in 1..Len(qs) :
                      qs[k].reply = "rejected" =>
                         /\ (qs[k].kind = "id" /\ NonBlank(results[c].name)) =>
                               (k < Len(qs) /\ qs[k + 1].kind = "name")
                         /\ (qs[k].kind = "name" /\ NonBlank(results[c].cleanName)) =>
                               (k < Len(qs) /\ qs[k + 1].kind = "slug")
                /\ SearchFailedEntry \in Range(results[c].errors)
                      <=> (qs # <<>> /\ qs[Len(qs)].reply = "rejected")
                /\ SearchFailedEntry \in Range(results[c].errors)
                      => PatchesOf(c) = <<>>

\* the identifier search of the first club was rejected, its name search
\* found the record and the update request was sent; the last search of the
\* second club was rejected and the club carries the search error
C29_Witness ==
    /\ IsUpload /\ ri = 3
    /\ Len(QueriesOf(1)) = 2
    /\ QueriesOf(1)[1].reply = "rejected" /\ QueriesOf(1)[2].found
    /\ PatchesOf(1) # <<>>
    /\ QueriesOf(2) # <<>>
    /\ QueriesOf(2)[Len(QueriesOf(2))].reply = "rejected"
    /\ SearchFailedEntry \in Range(results[2].errors)
    /\ PatchesOf(2) = <<>>


\* the storage key an asset is listed under
KeyOfAsset(a) == IF "publicId" \in DOMAIN a THEN a.publicId ELSE a.filename

\* C30: the destination store holds exactly the keys of the listed assets:
\* every asset a result lists has been published, nothing is published for
\* a slot that lists no asset, and no listed asset comes from a source whose
\* download or decode fails.
C30_PublishAfterTransform ==
    /\ cdn = {KeyOfAsset(a) : a \in ListedAssets}
    /\ \A a \in ListedAssets : a.originalUrl \notin Unreachable \cup Corrupt

====
